---- MODULE Spec2Model ----
(***************************************************************************)
(* Model of the bono-catalog backend: the catalog page planner             *)
(* (routes/catalog.py, plan_catalog_pages), the generation gateway         *)
(* (services/gemini_client.py, the generate methods) and the catalog       *)
(* assembler (routes/catalog.py, generate_master_catalog).                 *)
(*                                                                         *)
(* Further: the photo/poster route up to its first generate call           *)
(* (routes/catalog.py, generate_and_download) and the batch service with   *)
(* its routes (services/batch_service.py, routes/batch.py).                *)
(*                                                                         *)
(* The specifications share the variables below:                           *)
(*   SpecPlan       the planner applied to bounded (num_products,          *)
(*                  max_pages)                                             *)
(*   SpecGateway    gateway generation calls, one after another            *)
(*   Spec           one /generate-catalog request from upload to response  *)
(*   SpecAdmission  a request to one of the three generation routes, up to *)
(*                  the first step after the checks of the uploads         *)
(*   SpecBatch      batch submissions, status polls and downloads          *)
(*   SpecExtract    the download of a succeeded batch job from the call of *)
(*                  files.download on                                      *)
(*   SpecSubmit     batch submissions of one product count, one after      *)
(*                  another                                                *)
(*   SpecPolls      concurrent status and download requests for one        *)
(*                  submitted batch job                                    *)
(*   SpecLive       Spec on valid requests, with the handler and the call  *)
(*                  timeout under weak fairness                            *)
(*   SpecParse      _extract_image_from_response on bounded responses      *)
(*   SpecRace       two concurrent calls of a cached method, same key      *)
(*   SpecKey        the cache keys of two calls of a cached method         *)
(***************************************************************************)
EXTENDS Integers, Sequences, FiniteSets, TLC

\* ------------------------------------------------------------------------
\* Bounds of the model
\* ------------------------------------------------------------------------
\* largest num_products / max_pages handed to the planner in SpecPlan
PlanMaxProducts == 12
PlanMaxPages == 13
\* largest accepted product count of a catalog request in Spec
JobMaxProducts == 3
\* number of gateway calls made in a row in SpecGateway
MaxGatewayCalls == 2
\* largest number of uploads per list of a request in SpecAdmission
MaxUploads == 11
\* SpecBatch: requests served, jobs submitted, seconds that pass
MaxBatchRequests == 3
MaxBatchJobs == 1
\* number of batch jobs created in SpecSubmit
MaxSubmissions == 2
MaxClock == 1
\* largest number of lines of a result file in SpecExtract
MaxResultLines == 2
\* parts of a response in SpecParse
MaxParts == 2

\* ------------------------------------------------------------------------
\* Program constants
\* ------------------------------------------------------------------------
\* generate_master_catalog accepts 1..10 products
CatalogMaxProducts == 10
\* generate_and_download accepts 1..5 products
GenerateMaxProducts == 5
\* submit_batch_catalog accepts 1..10 products
BatchMaxProducts == 10
\* generate_master_catalog calls plan_catalog_pages(num_products, max_pages=10)
CatalogMaxPages == 10
\* plan_catalog_pages: pages reserved for cover and thank-you
ReservedPages == 2
\* plan_catalog_pages: up to 4 collages
MaxCollages == 4
\* plan_catalog_pages: branch "for very few products"
FewProducts == 2

VARIABLES
    \* ---- request / planner -------------------------------------------
    route,            \* the route the request was sent to
    num_front,        \* len(front_images) of the request
    num_back,         \* len(back_images) of the request
    logo,             \* "none" | "valid" | "invalid": the optional logo upload
    image_quality,    \* the quality tier form field
    num_products,     \* num_products (planner argument / len(front_images))
    max_pages,        \* max_pages (planner argument)
    page_plan,        \* the planner's result
    \* ---- catalog job -------------------------------------------------
    stage,            \* position of the request handler
    page_num,         \* enumerate(page_plan, start=1) loop index
    generated_images, \* list of (filename, image_bytes)
    attempted,        \* history: page numbers whose generation was started
    failed_pages,     \* history: page numbers whose generation raised
    failed_stage,     \* history: stage at which the job failed ("none" if not)
    response,         \* what the handler returned / raised
    \* ---- gateway -----------------------------------------------------
    gw_op,            \* the generate_* method being executed ("none" if idle)
    gw_pc,            \* position inside the method
    gw_key,           \* cache_key of the call (<<>> for uncached operations)
    gw_input_ok,      \* do the reference images decode (_image_to_pil)
    attempt,          \* loop index over [PRIMARY_MODEL, FALLBACK_MODEL]
    gw_calls,         \* history: models called on the external service
    gw_errors,        \* history: exception of each failed attempt
    gw_result,        \* value returned / exception raised by the method
    gw_done,          \* number of gateway calls finished (SpecGateway)
    first_image,      \* history: (method, cache_key) -> bytes its first successful call returned (SpecGateway)
    cache,            \* CACHE_DIR: cache_key -> image bytes
    gw_threads,       \* external calls of the method still running in their worker threads (indexes into gw_calls)
    gw_response,      \* the response object handed to _extract_image_from_response (SpecParse)
    racers,           \* per concurrent caller of a cached method: its position and result (SpecRace)
    key_calls,        \* two calls of generate_catalog_product_page_v2: arguments and cache key (SpecKey)
    \* ---- batch service ----------------------------------------------
    handler,          \* per request handler of the batch routes: its local state
    jobs_dir,         \* BATCH_JOBS_DIR: job_id -> the saved BatchJobInfo
    request_files,    \* BATCH_JOBS_DIR: job_id -> the requests written to <job_id>_requests.jsonl
    results_dir,      \* BATCH_RESULTS_DIR: job_id -> the saved ZIP
    ext_jobs,         \* the external service's batch jobs: job name -> state
    clock,            \* datetime.now(), in seconds
    b_done            \* number of batch requests started (SpecBatch)

reqVars == <<route, num_front, num_back, logo, image_quality, num_products, max_pages, page_plan>>
jobVars == <<stage, page_num, generated_images, attempted, failed_pages, failed_stage, response>>
gwVars == <<gw_op, gw_pc, gw_key, gw_input_ok, attempt, gw_calls, gw_errors, gw_result, gw_done, first_image, cache,
           gw_threads, gw_response, racers, key_calls>>
batchVars == <<handler, jobs_dir, request_files, results_dir, ext_jobs, clock, b_done>>
vars == <<reqVars, jobVars, gwVars, batchVars>>

\* ------------------------------------------------------------------------
\* Page planner: plan_catalog_pages (routes/catalog.py)
\* ------------------------------------------------------------------------
Min(a, b) == IF a <= b THEN a ELSE b

\* one tuple (layout_type, product_index, extra) of the plan;
\* view is "none" when extra holds no 'view'
PageEntry(layout_type, prod_idx, view, page_number) ==
    [layout_type |-> layout_type, product_index |-> prod_idx,
     view |-> view, page_number |-> page_number]

\* num_products <= 2: one collage per product, then one fabric close-up
FewProductsPlan_mut(n) ==
    [k \in 1..n |-> PageEntry("collage", k - 1, "none", (k - 1) + 1)]
        \o <<PageEntry("single_v2", 0, "front", n + 1)>>
FewProductsPlan(n) ==
    [k \in 1..n |-> PageEntry("collage", k - 1, "none", (k - 1) + 1)]
        \o <<PageEntry("fabric_v2", 0, "none", n + 1)>>

content_pages(m) == m - ReservedPages

num_collages_mut(n) == Min(n, MaxCollages - 1)
num_collages(n) == Min(n, MaxCollages)

num_fabric == 1

remaining(n, m) == content_pages(m) - num_collages(n) - num_fabric

\* 1. collage pages: for i in range(num_collages)
CollagePages(n) ==
    [k \in 1..num_collages(n) |->
        PageEntry("collage", (k - 1) % n, "none", (k - 1) + 1)]

\* page_number of the fabric page appended when page_idx pages exist
FabricPageNumber_mut(page_idx) == page_idx
FabricPageNumber(page_idx) == page_idx + 1

\* 2. fabric close-up pages: for i in range(num_fabric), page_idx = num_collages + i
FabricPages(n) ==
    [k \in 1..num_fabric |->
        PageEntry("fabric_v2", (num_collages(n) + (k - 1)) % n, "none",
                  FabricPageNumber(num_collages(n) + (k - 1)))]

\* 3. single pages: the loop "for i in range(remaining)" from iteration i on
RECURSIVE SinglePages(_, _, _, _, _, _)
SinglePages(i, n, m, page_idx, view_toggle, current_product) ==
    IF i >= remaining(n, m) THEN <<>>
    ELSE IF page_idx >= content_pages(m) THEN <<>>
    ELSE LET prod_idx == current_product % n
             view == IF view_toggle THEN "front" ELSE "back"
             next_toggle == ~view_toggle
             next_product == IF ~next_toggle THEN current_product + 1
                             ELSE current_product
         IN <<PageEntry("single_v2", prod_idx, view, page_idx + 1)>>
                \o SinglePages(i + 1, n, m, page_idx + 1, next_toggle, next_product)

plan_catalog_pages(n, m) ==
    IF n <= FewProducts THEN FewProductsPlan(n)
    ELSE CollagePages(n) \o FabricPages(n)
            \o SinglePages(0, n, m, num_collages(n) + num_fabric, TRUE, 0)

\* ------------------------------------------------------------------------
\* Generation gateway: GeminiClient (services/gemini_client.py)
\* ------------------------------------------------------------------------
PRIMARY_MODEL == "gemini-3-pro-image-preview"
FALLBACK_MODEL == "gemini-2.0-flash-exp"

\* the list every generate method loops over: enumerate([PRIMARY, FALLBACK])
MODELS_mut == <<FALLBACK_MODEL, PRIMARY_MODEL>>
MODELS == <<PRIMARY_MODEL, FALLBACK_MODEL>>

\* the generate methods that check and fill the cache
CachedOps ==
    {"generate_catalog_product_page_v2", "generate_fabric_closeup_v2",
     "generate_collage_layout"}

\* the generate methods that call asyncio.to_thread without wait_for
UntimedOps == {"generate_catalog_cover", "generate_catalog_thankyou"}

GatewayOps ==
    {"generate_model_image", "generate_marketing_poster",
     "generate_catalog_cover", "generate_catalog_thankyou",
     "generate_combo_layout", "generate_fabric_closeup",
     "generate_detail_highlight", "generate_model_with_callout",
     "generate_catalog_cover_enhanced", "generate_catalog_thankyou_simple"}
        \cup CachedOps

TimedOps_mut == CachedOps
TimedOps == GatewayOps \ UntimedOps

\* the payload bytes the external service renders for a request: kind
\* "image" and "other_image" decode as an image, kind "corrupt" does not
Payload(kind, op, key) == <<"payload", kind, op, key>>

\* b"": a buffer nothing was written into
EmptyBytes == <<>>

\* Image.open(BytesIO(data)) succeeds
Decodes(data) == Len(data) = 4 /\ data[2] \in {"image", "other_image"}

\* img.save(buffer, format="PNG"); buffer.getvalue()
SavedAsPng(data) == <<"png", data>>

\* _validate_image_bytes: the PNG re-encoding of the data, or ValueError
validate_image_bytes(data) ==
    IF Decodes(data) THEN [ok |-> TRUE, bytes |-> SavedAsPng(data)]
    ELSE [ok |-> FALSE, error |-> "Invalid image data"]

\* the image a generate method returns for the service's rendering of a request
GeneratedImage(op, key) == SavedAsPng(Payload("image", op, key))
\* the same for another rendering of the same request
OtherImage(op, key) == SavedAsPng(Payload("other_image", op, key))

\* One part of a response, by what the three extraction strategies find:
\*   inline:   part.inline_data.data   "none" (absent or empty) or a payload kind
\*   as_image: part.as_image()         "none" (absent or returns None),
\*             "pil" (an image whose save writes a PNG), "unchecked" (an
\*             object whose save writes bytes that do not decode), "empty"
\*             (an object whose save writes nothing), "raises" (as_image or
\*             save raises)
\*   raw:      image_bytes / _image_bytes / data holding bytes: "none" or a
\*             payload kind
Part(inline, as_image, raw) ==
    [inline |-> inline, as_image |-> as_image, raw |-> raw]
TextPart == Part("none", "none", "none")
InlinePart(kind) == Part(kind, "none", "none")

InlineData == {"none", "image", "corrupt"}
AsImages == {"none", "pil", "unchecked", "empty", "raises"}
RawBytes == {"none", "image", "corrupt"}
PartShapes ==
    {Part(i, a, r) : i \in InlineData, a \in AsImages, r \in RawBytes}

\* a response without parts
NoParts == <<>>

\* What the external service answers to a generation call: the list of parts
\* of the response. Generation is not deterministic: asked again, the
\* service may render another image for the same request. SpecGateway and
\* SpecRace, which repeat requests, have this answer too.
Responses ==
    {<<InlinePart("image")>>, <<InlinePart("corrupt")>>, NoParts, <<TextPart>>}
        \cup (IF stage \in {"gateway", "race"}
              THEN {<<InlinePart("other_image")>>} ELSE {})

\* outcome of the strategies on one part
NotFound == [found |-> FALSE]
Validated(data) ==
    LET v == validate_image_bytes(data)
    IN IF v.ok THEN [found |-> TRUE, ok |-> TRUE, bytes |-> v.bytes]
       ELSE [found |-> TRUE, ok |-> FALSE, error |-> v.error]
ReturnedAsIs(bytes) == [found |-> TRUE, ok |-> TRUE, bytes |-> bytes]

\* body of "for part in parts": Method 1 returns _validate_image_bytes of
\* the inline data; Method 2 returns buffer.getvalue() after img.save, an
\* exception leads on to Method 3; Method 3 returns _validate_image_bytes
\* of the bytes attribute
extract_from_part(part, op, key) ==
    IF part.inline # "none" THEN Validated(Payload(part.inline, op, key))
    ELSE IF part.as_image = "pil"
    THEN ReturnedAsIs(SavedAsPng(Payload("image", op, key)))
    ELSE IF part.as_image = "unchecked"
    THEN ReturnedAsIs(Payload("corrupt", op, key))
    ELSE IF part.as_image = "empty" THEN ReturnedAsIs(EmptyBytes)
    ELSE IF part.raw # "none" THEN Validated(Payload(part.raw, op, key))
    ELSE NotFound

\* "for part in parts: ..." and the raise after the loop
RECURSIVE extract_from_parts(_, _, _)
extract_from_parts(parts, op, key) ==
    IF parts = <<>>
    THEN [found |-> FALSE, ok |-> FALSE, error |-> "No image found in response"]
    ELSE LET x == extract_from_part(Head(parts), op, key)
         IN IF x.found THEN x ELSE extract_from_parts(Tail(parts), op, key)

\* _extract_image_from_response: the bytes returned, or the ValueError
extract_image_from_response(resp, op, key) ==
    IF resp = NoParts
    THEN [found |-> FALSE, ok |-> FALSE, error |-> "No parts found in response"]
    ELSE extract_from_parts(resp, op, key)

\* exceptions an attempt can end with
AttemptErrors ==
    {"Invalid image data", "No parts found in response",
     "No image found in response", "upstream error",
     "Image generation timed out", "cache write failed"}

NoResult == [kind |-> "none"]
Returned(bytes) == [kind |-> "return", bytes |-> bytes]
Raised(error) == [kind |-> "raise", error |-> error]

\* _get_cached_image: the cached bytes, or None
get_cached_image(key) == IF key \in DOMAIN cache THEN <<cache[key]>> ELSE <<>>

\* _cache_image: the cache directory after write_bytes
cache_image_mut(key, bytes) == cache
cache_image(key, bytes) ==
    [k \in DOMAIN cache \cup {key} |-> IF k = key THEN bytes ELSE cache[k]]

\* does cache_path.write_bytes succeed (it raises OSError before anything
\* is written otherwise); SpecGateway has the failing write too
CacheWrites == IF stage = "gateway" THEN BOOLEAN ELSE {TRUE}

\* "if attempt == 1: raise"
IsLastAttempt_mut(a) == FALSE
IsLastAttempt(a) == a = 1

\* the external call of loop iteration a, issued through asyncio.to_thread
IssueCall(a) ==
    /\ attempt' = a
    /\ gw_calls' = Append(gw_calls, MODELS[a + 1])
    /\ gw_pc' = "in_flight"
    /\ gw_result' = NoResult

\* the method ends: return or raise
GwEnd(result) ==
    /\ gw_pc' = "done"
    /\ gw_result' = result
    /\ UNCHANGED <<attempt, gw_calls>>

\* the worker threads running an external call after a step: those in
\* "left" and the thread of the call the step has issued, if any
StillRunning(left) ==
    left \cup (IF gw_pc' = "in_flight" THEN {Len(gw_calls')} ELSE {})

\* A generate method from its first line to its first await: cache lookup
\* (cached methods only), _image_to_pil of the reference images, first call.
GwEnter(op, key, input_ok) ==
    /\ gw_op' = op
    /\ gw_key' = key
    /\ gw_input_ok' = input_ok
    /\ gw_errors' = <<>>
    /\ cache' = cache
    /\ IF op \in CachedOps /\ get_cached_image(key) # <<>>
       THEN /\ gw_pc' = "done"
            /\ gw_result' = Returned(get_cached_image(key)[1])
            /\ attempt' = 0
            /\ gw_calls' = <<>>
       ELSE IF ~input_ok
       THEN /\ gw_pc' = "done"
            /\ gw_result' = Raised("Invalid image format")
            /\ attempt' = 0
            /\ gw_calls' = <<>>
       ELSE /\ attempt' = 0
            /\ gw_calls' = <<MODELS[1]>>
            /\ gw_pc' = "in_flight"
            /\ gw_result' = NoResult
    /\ gw_threads' = StillRunning({})

\* try-body after the await: the image is extracted, cached and returned
AttemptSucceeded_mut(bytes) ==
    /\ cache' = IF gw_op \in CachedOps THEN cache_image(gw_key, EmptyBytes) ELSE cache
    /\ gw_errors' = gw_errors
    /\ GwEnd(Returned(bytes))
AttemptSucceeded(bytes) ==
    /\ cache' = IF gw_op \in CachedOps THEN cache_image(gw_key, bytes) ELSE cache
    /\ gw_errors' = gw_errors
    /\ GwEnd(Returned(bytes))

\* "except Exception as e": log, re-raise on the last attempt, else go on
\* with the next model; falling out of the loop raises "All models failed"
AttemptFailed(e) ==
    /\ gw_errors' = Append(gw_errors, [model |-> MODELS[attempt + 1], error |-> e])
    /\ cache' = cache
    /\ IF IsLastAttempt(attempt) THEN GwEnd(Raised(e))
       ELSE IF attempt + 1 < Len(MODELS) THEN IssueCall(attempt + 1)
       ELSE GwEnd(Raised("All models failed"))

\* the external service answers the call in flight: its worker thread ends,
\* the image is extracted and, by a cached method, written to the cache
ExternalResponds ==
    /\ gw_pc = "in_flight"
    /\ \E resp \in Responses, written \in CacheWrites :
         LET x == extract_image_from_response(resp, gw_op, gw_key)
         IN IF ~x.ok THEN AttemptFailed(x.error)
            ELSE IF gw_op \in CachedOps /\ ~written
            THEN AttemptFailed("cache write failed")
            ELSE AttemptSucceeded(x.bytes)
    /\ gw_threads' = StillRunning(gw_threads \ {Len(gw_calls)})
    /\ UNCHANGED <<gw_op, gw_key, gw_input_ok, gw_done, first_image, gw_response, racers, key_calls>>

\* generate_content raises (API error, quota, network): its worker thread ends
ExternalRaises ==
    /\ gw_pc = "in_flight"
    /\ AttemptFailed("upstream error")
    /\ gw_threads' = StillRunning(gw_threads \ {Len(gw_calls)})
    /\ UNCHANGED <<gw_op, gw_key, gw_input_ok, gw_done, first_image, gw_response, racers, key_calls>>

\* _generate_with_timeout: wait_for gives up after API_TIMEOUT seconds and
\* raises TimeoutError; the worker thread started by asyncio.to_thread is
\* not stopped and goes on with generate_content
TimeoutFires ==
    /\ gw_pc = "in_flight"
    /\ gw_op \in TimedOps
    /\ AttemptFailed("Image generation timed out")
    /\ gw_threads' = StillRunning(gw_threads)
    /\ UNCHANGED <<gw_op, gw_key, gw_input_ok, gw_done, first_image, gw_response, racers, key_calls>>

\* a call the method no longer waits for ends in its worker thread; its
\* result is dropped
AbandonedCallEnds ==
    /\ \E k \in gw_threads :
         /\ ~(gw_pc = "in_flight" /\ k = Len(gw_calls))
         /\ gw_threads' = gw_threads \ {k}
    /\ UNCHANGED <<gw_op, gw_pc, gw_key, gw_input_ok, attempt, gw_calls, gw_errors,
                   gw_result, gw_done, first_image, cache, gw_response, racers, key_calls>>

GwIdle ==
    /\ gw_op = "none"
    /\ gw_pc = "idle"
    /\ gw_key = <<>>
    /\ gw_input_ok = TRUE
    /\ attempt = 0
    /\ gw_calls = <<>>
    /\ gw_errors = <<>>
    /\ gw_result = NoResult
    /\ gw_threads = {}

\* the caller has taken the result: no method is running, and the calls the
\* method left behind in their threads are followed no further
GwReset ==
    /\ gw_op' = "none"
    /\ gw_pc' = "idle"
    /\ gw_key' = <<>>
    /\ gw_input_ok' = TRUE
    /\ attempt' = 0
    /\ gw_calls' = <<>>
    /\ gw_errors' = <<>>
    /\ gw_result' = NoResult
    /\ cache' = cache
    /\ gw_threads' = {}

\* the concurrent callers of SpecRace
Racers == {"r1", "r2"}
IdleRacer == [pc |-> "idle", attempt |-> 0, result |-> NoResult]
IdleRacers == [r \in Racers |-> IdleRacer]

\* arguments handed to _get_cache_key: image bytes, None, a string, a number
BytesArg(b) == <<"bytes", b>>
NoneArg == <<"none", 0>>
StrArg(v) == <<"str", v>>
IntArg(n) == <<"int", n>>

\* len(arg) and hashlib.md5(arg).hexdigest()[:8] of image bytes <<name, i>>
ImageLength(b) == Len(b[1])
ImageDigest(b) == b[1] \o ToString(b[2])

\* what the loop body of _get_cache_key adds to key_data for one argument:
\* f"img_{len(arg)}_{md5[:8]}_" for bytes, nothing for None, f"{str(arg)}_"
\* for everything else
ArgKeyData(a) ==
    CASE a[1] = "bytes" ->
            "img_" \o ToString(ImageLength(a[2])) \o "_" \o ImageDigest(a[2]) \o "_"
      [] a[1] = "none" -> ""
      [] a[1] = "int" -> ToString(a[2]) \o "_"
      [] OTHER -> a[2] \o "_"

\* key_data after the loop over the arguments
RECURSIVE KeyData(_)
KeyData(args) ==
    IF args = <<>> THEN "" ELSE ArgKeyData(Head(args)) \o KeyData(Tail(args))

\* hashlib.sha256(key_data.encode()).hexdigest()[:32]; two key_data with the
\* same digest are not modelled
Sha256(key_data) == <<"sha256", key_data>>

\* _get_cache_key
get_cache_key(args) == Sha256(KeyData(args))

\* ------------------------------------------------------------------------
\* Catalog assembler: generate_master_catalog (routes/catalog.py)
\* ------------------------------------------------------------------------
\* form fields the model keeps fixed
category == "teen_boy"
skin_tone == "fair"
body_type == ""
theme == "studio_minimal"

QualityTiers == {"1K", "2K", "4K", "2K_UPSCALE", "4K_UPSCALE"}

\* quality selection: what to generate at, whether to upscale, and to what
internal_quality(q) ==
    IF q = "2K_UPSCALE" THEN "2K" ELSE IF q = "4K_UPSCALE" THEN "4K" ELSE q
should_upscale_mut(q) == q # "1K"
should_upscale(q) == q \in {"2K_UPSCALE", "4K_UPSCALE"}
upscale_target(q) ==
    IF q = "2K_UPSCALE" THEN "4K" ELSE IF q = "4K_UPSCALE" THEN "8K" ELSE "None"

\* front_processed[i], back_processed[i]: the preprocessed garment images
front_processed(i) == <<"front", i>>
back_processed(i) == <<"back", i>>

\* upscale_to_target(image_bytes, target)
upscale_to_target(bytes, target) == <<"upscaled", target, bytes>>

\* create_pdf_from_images(image_bytes_list)
create_pdf_from_images(list) == <<"pdf", list>>

\* the filenames the assembler gives its images
CoverName == <<0, "cover", 0>>
ThankyouName == <<99, "thankyou", 0>>
PdfName == <<100, "complete.pdf", 0>>
PageKind(entry) ==
    CASE entry.layout_type = "collage" -> "collage_product"
      [] entry.layout_type = "fabric_v2" -> "fabric_art"
      [] entry.layout_type = "single_v2" -> entry.view \o "_product"
      [] entry.layout_type = "combo" -> "combo_product"
      [] OTHER -> entry.layout_type \o "_product"
PageName_mut(k, entry) == <<entry.product_index + 1, PageKind(entry), entry.product_index + 1>>
PageName(k, entry) == <<k, PageKind(entry), entry.product_index + 1>>

\* the generate method the loop body calls for a plan entry
PageOp(entry) ==
    CASE entry.layout_type = "collage" -> "generate_collage_layout"
      [] entry.layout_type = "fabric_v2" -> "generate_fabric_closeup_v2"
      [] entry.layout_type = "single_v2" -> "generate_catalog_product_page_v2"
      [] entry.layout_type = "combo" -> "generate_combo_layout"
      [] entry.layout_type \in {"front", "back"} -> "generate_catalog_product_page_v2"
      [] OTHER -> "none"

\* the cache key the called method computes from its arguments
PageKey(entry, q) ==
    LET i == entry.product_index
        garment == IF entry.view = "back" \/ entry.layout_type = "back"
                   THEN back_processed(i) ELSE front_processed(i)
    IN CASE PageOp(entry) = "generate_collage_layout" ->
              get_cache_key(<<StrArg("collage"), BytesArg(front_processed(i)),
                              BytesArg(back_processed(i)), StrArg(category),
                              StrArg(skin_tone), StrArg(body_type), StrArg(theme),
                              IntArg(entry.page_number),
                              StrArg(internal_quality(q))>>)
         [] PageOp(entry) = "generate_fabric_closeup_v2" ->
              get_cache_key(<<StrArg("fabric_v2"), BytesArg(front_processed(i)),
                              StrArg(theme), IntArg(entry.page_number),
                              StrArg(internal_quality(q))>>)
         [] PageOp(entry) = "generate_catalog_product_page_v2" ->
              get_cache_key(<<StrArg("product_page_v2"), BytesArg(garment),
                              StrArg(category),
                              StrArg(IF entry.layout_type = "single_v2"
                                     THEN entry.view ELSE entry.layout_type),
                              StrArg(skin_tone), StrArg(body_type), StrArg(theme),
                              IntArg(entry.page_number),
                              StrArg(internal_quality(q))>>)
         [] OTHER -> <<>>

\* product counts of the requests the model sends
RequestSizes == (0..JobMaxProducts) \cup {CatalogMaxProducts + 1}

HttpError(status, detail) == [status |-> status, detail |-> detail]
NoResponse == [status |-> 0]

\* generated_images.append((filename, image_bytes))
AppendImage_mut(list, name, bytes) == <<<<name, bytes>>>> \o list
AppendImage(list, name, bytes) == Append(list, <<name, bytes>>)

\* the product limit each generation route checks the uploads against
ProductLimit_mut(rt) == CatalogMaxProducts
ProductLimit(rt) ==
    CASE rt = "generate" -> GenerateMaxProducts
      [] rt = "batch/submit-catalog" -> BatchMaxProducts
      [] OTHER -> CatalogMaxProducts

\* the two checks on the upload lists at the top of each generation route:
\* the HTTPException raised, or NoResponse when the uploads pass
UploadsError(rt, nf, nb) ==
    IF nf # nb
    THEN HttpError(400, "Number of front and back images must match")
    ELSE IF nf < 1 \/ nf > ProductLimit(rt)
    THEN HttpError(400, IF rt = "generate" THEN "Must provide 1-5 products"
                        ELSE "Provide 1-10 products")
    ELSE NoResponse

\* HTTPException(status_code=500, detail=f"Catalog generation failed: {str(e)}")
FailureResponse(e) == HttpError(500, <<"Catalog generation failed: ", e>>)

\* the outer "except Exception as e": the handler ends with HTTP 500
CatalogFailed(e) ==
    /\ response' = FailureResponse(e)
    /\ failed_stage' = stage
    /\ stage' = "failed"

\* the two checks on the upload lists at the top of the handler
Validate ==
    /\ stage = "pending"
    /\ route = "generate-catalog"
    /\ IF UploadsError(route, num_front, num_back) # NoResponse
       THEN /\ response' = UploadsError(route, num_front, num_back)
            /\ stage' = "rejected"
            /\ UNCHANGED num_products
       ELSE /\ num_products' = num_front
            /\ stage' = "preprocessing"
            /\ UNCHANGED response
    /\ UNCHANGED <<batchVars, route, num_front, num_back, logo, image_quality, max_pages, page_plan>>
    /\ UNCHANGED <<page_num, generated_images, attempted, failed_pages, failed_stage>>
    /\ UNCHANGED gwVars

\* GeminiClient(), reading the uploads, prepare_garment on every image;
\* then the cover method is called
Preprocess ==
    /\ stage = "preprocessing"
    /\ route = "generate-catalog"
    /\ \E uploads_ok \in BOOLEAN :
         IF uploads_ok
         THEN /\ stage' = "generating_cover"
              /\ generated_images' = <<>>
              /\ GwEnter("generate_catalog_cover_enhanced", <<>>, logo # "invalid")
              /\ UNCHANGED <<response, failed_stage>>
         ELSE /\ CatalogFailed("Invalid image file")
              /\ UNCHANGED generated_images
              /\ UNCHANGED <<gw_op, gw_pc, gw_key, gw_input_ok, attempt, gw_calls,
                             gw_errors, gw_result, cache, gw_threads>>
    /\ UNCHANGED <<batchVars, reqVars, page_num, attempted, failed_pages, gw_done, first_image, gw_response, racers, key_calls>>

\* the cover method has ended: append the cover and plan the pages
CoverReturns ==
    /\ stage = "generating_cover"
    /\ gw_pc = "done"
    /\ IF gw_result.kind = "return"
       THEN /\ generated_images' = AppendImage(generated_images, CoverName, gw_result.bytes)
            /\ page_plan' = plan_catalog_pages(num_products, max_pages)
            /\ page_num' = 1
            /\ stage' = "generating_pages"
            /\ UNCHANGED <<response, failed_stage>>
       ELSE /\ CatalogFailed(gw_result.error)
            /\ UNCHANGED <<generated_images, page_plan, page_num>>
    /\ GwReset
    /\ UNCHANGED <<batchVars, route, num_front, num_back, logo, image_quality, num_products, max_pages>>
    /\ UNCHANGED <<attempted, failed_pages, gw_done, first_image, gw_response, racers, key_calls>>

\* loop body up to the await: the generate method for the plan entry is called
StartPage ==
    /\ stage = "generating_pages"
    /\ gw_pc = "idle"
    /\ page_num <= Len(page_plan)
    /\ PageOp(page_plan[page_num]) # "none"
    /\ attempted' = attempted \cup {page_num}
    /\ GwEnter(PageOp(page_plan[page_num]),
               PageKey(page_plan[page_num], image_quality), TRUE)
    /\ UNCHANGED <<batchVars, reqVars, stage, page_num, generated_images, failed_pages,
                   failed_stage, response, gw_done, first_image, gw_response, racers, key_calls>>

\* the generate method of a content page raised:
\* "except Exception as e: ... continue"
PageSkipped_mut ==
    /\ failed_pages' = failed_pages \cup {page_num}
    /\ CatalogFailed(gw_result.error)
    /\ UNCHANGED generated_images
PageSkipped ==
    /\ failed_pages' = failed_pages \cup {page_num}
    /\ UNCHANGED <<generated_images, stage, response, failed_stage>>

\* loop body after the await: append the page, or skip it
PageReturns ==
    /\ stage = "generating_pages"
    /\ gw_pc = "done"
    /\ IF gw_result.kind = "return"
       THEN /\ generated_images' =
                 AppendImage(generated_images,
                             PageName(page_num, page_plan[page_num]), gw_result.bytes)
            /\ UNCHANGED <<failed_pages, stage, response, failed_stage>>
       ELSE PageSkipped
    /\ page_num' = page_num + 1
    /\ GwReset
    /\ UNCHANGED <<batchVars, reqVars, attempted, gw_done, first_image, gw_response, racers, key_calls>>

\* the loop is over: the thank-you method is called
StartThankyou ==
    /\ stage = "generating_pages"
    /\ gw_pc = "idle"
    /\ page_num > Len(page_plan)
    /\ stage' = "generating_thankyou"
    /\ GwEnter("generate_catalog_thankyou_simple", <<>>, logo # "invalid")
    /\ UNCHANGED <<batchVars, reqVars, page_num, generated_images, attempted, failed_pages,
                   failed_stage, response, gw_done, first_image, gw_response, racers, key_calls>>

\* the thank-you method raised: nothing catches it before the outer except
ThankyouFailed_mut ==
    /\ stage' = IF should_upscale(image_quality) THEN "upscaling" ELSE "packaging"
    /\ UNCHANGED <<generated_images, response, failed_stage>>
ThankyouFailed ==
    /\ CatalogFailed(gw_result.error)
    /\ UNCHANGED generated_images

\* the thank-you method has ended
ThankyouReturns ==
    /\ stage = "generating_thankyou"
    /\ gw_pc = "done"
    /\ IF gw_result.kind = "return"
       THEN /\ generated_images' =
                 AppendImage(generated_images, ThankyouName, gw_result.bytes)
            /\ stage' = IF should_upscale(image_quality) THEN "upscaling"
                        ELSE "packaging"
            /\ UNCHANGED <<response, failed_stage>>
       ELSE ThankyouFailed
    /\ GwReset
    /\ UNCHANGED <<batchVars, reqVars, page_num, attempted, failed_pages, gw_done, first_image, gw_response, racers, key_calls>>

\* body of the upscale loop for one image: the upscaled bytes under the same
\* filename, or, when upscale_to_target raised, the image as it was
UpscaledImage_mut(im, target, failed) ==
    IF failed THEN <<im[1], <<"missing", target, im[2]>>>>
    ELSE <<im[1], upscale_to_target(im[2], target)>>
UpscaledImage(im, target, failed) ==
    IF failed THEN im ELSE <<im[1], upscale_to_target(im[2], target)>>

\* the upscale loop: every image is upscaled on its own, a failed upscale
\* keeps the original bytes
Upscale ==
    /\ stage = "upscaling"
    /\ \E fails \in SUBSET (1..Len(generated_images)) :
         generated_images' =
            [k \in 1..Len(generated_images) |->
                UpscaledImage(generated_images[k], upscale_target(image_quality),
                              k \in fails)]
    /\ stage' = "packaging"
    /\ UNCHANGED <<batchVars, reqVars, page_num, attempted, failed_pages, failed_stage,
                   response, gwVars>>

\* the files written into the ZIP: every image in list order, then the PDF
\* unless its creation failed ("if pdf_bytes:")
ZipFiles_mut(images, pdf_ok, pdf_bytes) ==
    IF pdf_ok THEN Append(images, <<PdfName, pdf_bytes>>) ELSE <<>>
ZipFiles(images, pdf_ok, pdf_bytes) ==
    IF pdf_ok THEN Append(images, <<PdfName, pdf_bytes>>) ELSE images

\* the PDF (dropped when its creation fails) and the ZIP of images + PDF
Package ==
    /\ stage = "packaging"
    /\ \E pdf_ok \in BOOLEAN :
         LET image_bytes_only ==
                 [k \in 1..Len(generated_images) |-> generated_images[k][2]]
             pdf_bytes == create_pdf_from_images(image_bytes_only)
         IN response' =
              [status |-> 200,
               zip |-> ZipFiles(generated_images, pdf_ok, pdf_bytes)]
    /\ stage' = "completed"
    /\ UNCHANGED <<batchVars, reqVars, page_num, generated_images, attempted, failed_pages,
                   failed_stage, gwVars>>

\* ------------------------------------------------------------------------
\* Photo / poster route: generate_and_download (routes/catalog.py)
\* ------------------------------------------------------------------------
\* the two checks on the upload lists at the top of the handler
GenerateValidate ==
    /\ stage = "pending"
    /\ route = "generate"
    /\ IF UploadsError(route, num_front, num_back) # NoResponse
       THEN /\ response' = UploadsError(route, num_front, num_back)
            /\ stage' = "rejected"
            /\ UNCHANGED num_products
       ELSE /\ num_products' = num_front
            /\ stage' = "preprocessing"
            /\ UNCHANGED response
    /\ UNCHANGED <<batchVars, route, num_front, num_back, logo, image_quality, max_pages, page_plan>>
    /\ UNCHANGED <<page_num, generated_images, attempted, failed_pages, failed_stage>>
    /\ UNCHANGED gwVars

\* GeminiClient(), reading the uploads, prepare_garment on every image; then
\* the first generate method of the loop is called for product 1
GeneratePreprocess ==
    /\ stage = "preprocessing"
    /\ route = "generate"
    /\ \E uploads_ok \in BOOLEAN, generation_mode \in {"photo", "poster"} :
         IF uploads_ok
         THEN /\ stage' = "generating_" \o generation_mode
              /\ generated_images' = <<>>
              /\ page_num' = 1
              /\ IF generation_mode = "poster"
                 THEN GwEnter("generate_marketing_poster", <<>>, logo # "invalid")
                 ELSE GwEnter("generate_model_image", <<>>, TRUE)
              /\ UNCHANGED <<response, failed_stage>>
         ELSE /\ response' = HttpError(500, <<"Generation failed: ", "Invalid image file">>)
              /\ failed_stage' = stage
              /\ stage' = "failed"
              /\ UNCHANGED <<generated_images, page_num>>
              /\ UNCHANGED <<gw_op, gw_pc, gw_key, gw_input_ok, attempt, gw_calls,
                             gw_errors, gw_result, cache, gw_threads>>
    /\ UNCHANGED <<batchVars, reqVars, attempted, failed_pages, gw_done, first_image, gw_response, racers, key_calls>>

\* ------------------------------------------------------------------------
\* Batch service (services/batch_service.py) and its routes (routes/batch.py)
\* ------------------------------------------------------------------------
\* request handlers of the batch routes that the server runs
\* (two of them in SpecPolls, where requests overlap)
Handlers == IF stage = "polls" THEN {"h1", "h2"} ELSE {"h1"}

\* job-state names the status mapper knows
KnownStates ==
    {"JOB_STATE_PENDING", "JOB_STATE_RUNNING", "JOB_STATE_SUCCEEDED",
     "JOB_STATE_FAILED", "JOB_STATE_CANCELLED", "JOB_STATE_EXPIRED"}
\* job-state names of the external service that the mapper does not know
UnknownStates == {"JOB_STATE_QUEUED", "JOB_STATE_PAUSED", "JOB_STATE_CANCELLING"}
ExternalStates == KnownStates \cup UnknownStates

\* the states the external service may move a job to from state s
ExtNext(s) ==
    CASE s = "JOB_STATE_QUEUED" ->
            {"JOB_STATE_PENDING", "JOB_STATE_CANCELLING", "JOB_STATE_EXPIRED"}
      [] s = "JOB_STATE_PENDING" ->
            {"JOB_STATE_RUNNING", "JOB_STATE_CANCELLING", "JOB_STATE_EXPIRED"}
      [] s = "JOB_STATE_RUNNING" ->
            {"JOB_STATE_PAUSED", "JOB_STATE_SUCCEEDED", "JOB_STATE_FAILED",
             "JOB_STATE_CANCELLING", "JOB_STATE_EXPIRED"}
      [] s = "JOB_STATE_PAUSED" ->
            {"JOB_STATE_RUNNING", "JOB_STATE_CANCELLING", "JOB_STATE_EXPIRED"}
      [] s = "JOB_STATE_CANCELLING" -> {"JOB_STATE_CANCELLED"}
      [] OTHER -> {}

\* state_mapping.get(batch_job.state.name, 'pending')
state_mapping_mut(name) ==
    CASE name = "JOB_STATE_RUNNING" -> "running"
      [] name = "JOB_STATE_SUCCEEDED" -> "succeeded"
      [] name = "JOB_STATE_FAILED" -> "failed"
      [] name = "JOB_STATE_CANCELLED" -> "cancelled"
      [] name = "JOB_STATE_EXPIRED" -> "failed"
      [] OTHER -> "pending"
state_mapping(name) ==
    CASE name = "JOB_STATE_PENDING" -> "pending"
      [] name = "JOB_STATE_RUNNING" -> "running"
      [] name = "JOB_STATE_SUCCEEDED" -> "succeeded"
      [] name = "JOB_STATE_FAILED" -> "failed"
      [] name = "JOB_STATE_CANCELLED" -> "failed"
      [] name = "JOB_STATE_EXPIRED" -> "failed"
      [] OTHER -> "pending"

\* "if job_info.status in ['succeeded', 'failed']"
IsCompleted_mut(status) == status = "succeeded"
IsCompleted(status) == status \in {"succeeded", "failed"}

\* values of the Optional fields that are None
NoFile == <<>>
NoTime == -1
NoError == <<>>
NoJobId == <<-1, 0>>
NoJobName == <<"batches", 0>>
\* a job id for which no record was ever written
UnknownJobId == <<-1, 1>>

\* job_id = f"catalog_{now:%Y%m%d_%H%M%S}_{n}prod"
JobId(now, n) == <<now, n>>
\* batch_job.name of the k-th job the external service created
JobName(k) == <<"batches", k>>
\* batch_job.dest.file_name of a succeeded job
ResultFile(name) == <<"files", name>>
\* str(getattr(batch_job, 'error', 'Unknown error'))
JobError(name) == <<"error", name>>

\* the BatchJobInfo that submit_batch_catalog saves
BatchJobInfo(job_id, job_name, n, now) ==
    [job_id |-> job_id, job_name |-> job_name, num_products |-> n,
     status |-> "pending", created_at |-> now, completed_at |-> NoTime,
     result_file |-> NoFile, error_message |-> NoError]
NoJobInfo == BatchJobInfo(NoJobId, NoJobName, 0, NoTime)

\* _save_job_info: BATCH_JOBS_DIR after the record is written
save_job_info(dir, job_info) ==
    [j \in DOMAIN dir \cup {job_info.job_id} |->
        IF j = job_info.job_id THEN job_info ELSE dir[j]]

\* _create_catalog_requests: the request keys, in order: the cover, for each
\* product its front and then its back page, the thank-you page
RequestKey(page, kind, product) == <<page, kind, product>>
create_catalog_requests_mut(n) ==
    [k \in 1..(2 * n + 2) |->
        IF k = 1 THEN RequestKey(k, "cover", 0)
        ELSE IF k = 2 * n + 2 THEN RequestKey(k, "thankyou", 0)
        ELSE RequestKey(k, IF k % 2 = 0 THEN "front" ELSE "back", (k + 1) \div 2)]
create_catalog_requests(n) ==
    [k \in 1..(2 * n + 2) |->
        IF k = 1 THEN RequestKey(k, "cover", 0)
        ELSE IF k = 2 * n + 2 THEN RequestKey(k, "thankyou", 0)
        ELSE RequestKey(k, IF k % 2 = 0 THEN "front" ELSE "back", k \div 2)]

\* a handler that serves no request
IdleHandler ==
    [pc |-> "idle", route |-> "none", job_id |-> NoJobId, caller |-> "none",
     job_info |-> NoJobInfo,
     loaded |-> <<>>,     \* history: what each check_job_status found on disk
     polled |-> <<>>,     \* history: the state names batches.get returned
     calls |-> <<>>,      \* history: the calls made to the external service
     content |-> <<>>,    \* history: <<the result file>> once it was downloaded
     response |-> NoResponse]
StartRequest(rt, id) == [IdleHandler EXCEPT !.route = rt, !.job_id = id]

\* the handler ends with a response
Respond(hr, resp) == [hr EXCEPT !.pc = "done", !.response = resp]
\* "except ValueError as e: raise HTTPException(status_code=404, ...)"
RaiseValueError_mut(hr, detail) == Respond(hr, HttpError(400, detail))
RaiseValueError(hr, detail) == Respond(hr, HttpError(404, detail))
\* "except Exception as e: raise HTTPException(status_code=500, ...)"
RaiseException(hr, detail) == Respond(hr, HttpError(500, detail))

\* check_job_status up to its await: a missing record raises ValueError, a
\* completed record is returned as saved (pc "returned": the caller goes
\* on), otherwise batches.get is called
check_job_status(hr, dir, caller) ==
    IF hr.job_id \notin DOMAIN dir
    THEN RaiseValueError([hr EXCEPT !.loaded = Append(@, "missing")], "Job not found")
    ELSE LET job_info == dir[hr.job_id]
             h1 == [hr EXCEPT !.loaded = Append(@, job_info.status)]
         IN IF IsCompleted(job_info.status)
            THEN [h1 EXCEPT !.pc = "returned", !.job_info = job_info]
            ELSE [h1 EXCEPT !.pc = "batches_get", !.caller = caller,
                            !.job_info = job_info,
                            !.calls = Append(@, "batches.get")]

\* BatchService.download_batch_results after its check_job_status returned
ServiceAfterCheck(hr, job_info) ==
    IF job_info.status # "succeeded"
    THEN RaiseValueError(hr, "Job not completed")
    ELSE IF job_info.result_file = NoFile
    THEN RaiseValueError(hr, "No result file available")
    ELSE [hr EXCEPT !.pc = "files_download", !.job_info = job_info,
                    !.calls = Append(@, "files.download")]

\* the route after its check_job_status returned: get_batch_status answers
\* with the record; download_batch_results raises 400 unless the job has
\* succeeded and then calls BatchService.download_batch_results
RouteAfterCheck(hr, dir, job_info) ==
    IF hr.route = "status"
    THEN Respond(hr, [status |-> 200, job |-> job_info])
    ELSE IF job_info.status # "succeeded"
    THEN Respond(hr, HttpError(400, <<"Job not ready. Current status: ",
                                      job_info.status>>))
    ELSE LET x == check_job_status(hr, dir, "service")
         IN IF x.pc = "returned" THEN ServiceAfterCheck(x, x.job_info) ELSE x

\* a route from its first line to its first await or its end
RouteEnter(rt, id, dir) ==
    LET x == check_job_status(StartRequest(rt, id), dir, "route")
    IN IF x.pc = "returned" THEN RouteAfterCheck(x, dir, x.job_info) ELSE x

\* lines a result file may hold, by what the extraction loop meets in them
RecordShapes ==
    {"image",              \* response.candidates[0].content.parts with inlineData
     "blank",              \* an empty line
     "invalid_json",       \* not a JSON document
     "error",              \* no response, an "error" member
     "no_response",        \* neither "response" nor "error"
     "missing_candidates", \* response without "candidates"
     "null_candidates",    \* "candidates": null
     "empty_candidates",   \* "candidates": []
     "missing_content",    \* candidate without "content"
     "null_content",       \* "content": null
     "missing_parts",      \* content without "parts"
     "null_parts",         \* "parts": null
     "empty_parts",        \* "parts": []
     "no_inline_data",     \* parts without inlineData
     "bad_base64"}         \* inlineData.data with incorrect padding

\* what the loop body does with one line: appends an image, goes on to the
\* next line, or raises
RecordOutcome(shape) ==
    CASE shape = "image" -> "image"
      [] shape = "blank" -> "skip"
      [] shape = "invalid_json" -> "JSONDecodeError"
      [] shape \in {"error", "no_response"} -> "skip"
      [] shape \in {"missing_candidates", "missing_content", "missing_parts"} -> "skip"
      [] shape = "empty_candidates" -> "skip"
      [] shape \in {"null_candidates", "null_content", "null_parts"} -> "TypeError"
      [] shape \in {"empty_parts", "no_inline_data"} -> "skip"
      [] OTHER -> "binascii.Error"

\* exception classes that are subclasses of ValueError
ValueErrors == {"JSONDecodeError", "binascii.Error"}

\* (f"{key}.png", base64.b64decode(...)) of the record on line k
RecordImage(k) == <<<<"page", k>>, <<"result", k>>>>

\* the extraction loop of download_batch_results from line k on
RECURSIVE ExtractFrom(_, _, _)
ExtractFrom(lines, k, images) ==
    IF k > Len(lines) THEN [raised |-> "none", images |-> images]
    ELSE LET o == RecordOutcome(lines[k])
         IN IF o = "image"
            THEN ExtractFrom(lines, k + 1, Append(images, RecordImage(k)))
            ELSE IF o = "skip" THEN ExtractFrom(lines, k + 1, images)
            ELSE [raised |-> o, images |-> images]

\* the result files the external service may hold: of at most
\* MaxResultLines lines in SpecExtract, of at most one line elsewhere
ResultFiles ==
    UNION {[1..n -> RecordShapes] :
              n \in 0..(IF stage = "extract" THEN MaxResultLines ELSE 1)}

OtherVarsUnchanged == UNCHANGED <<reqVars, jobVars, gwVars>>

\* the number of external jobs the model lets the submissions create
JobsCap == IF stage = "submit" THEN MaxSubmissions ELSE MaxBatchJobs

\* a handler is free to take the next request
CanStart(h) ==
    /\ handler[h].pc \in {"idle", "done"}
    /\ b_done < MaxBatchRequests

\* GET /batch/status/{job_id} up to the first await
StatusRequest(h) ==
    /\ CanStart(h)
    /\ \E id \in DOMAIN jobs_dir \cup {UnknownJobId} :
         handler' = [handler EXCEPT ![h] = RouteEnter("status", id, jobs_dir)]
    /\ b_done' = b_done + 1
    /\ UNCHANGED <<jobs_dir, request_files, results_dir, ext_jobs, clock>>
    /\ OtherVarsUnchanged

\* GET /batch/download/{job_id} up to the first await
DownloadRequest(h) ==
    /\ CanStart(h)
    /\ \E id \in DOMAIN jobs_dir \cup {UnknownJobId} :
         handler' = [handler EXCEPT ![h] = RouteEnter("download", id, jobs_dir)]
    /\ b_done' = b_done + 1
    /\ UNCHANGED <<jobs_dir, request_files, results_dir, ext_jobs, clock>>
    /\ OtherVarsUnchanged

\* check_job_status after batches.get returned: map the state, fill in the
\* completion fields, save the record, return it to the caller
BatchesGetReturns(h) ==
    /\ handler[h].pc = "batches_get"
    /\ LET hr == handler[h]
           job == ext_jobs[hr.job_info.job_name]
           status == state_mapping(job.state)
           job_info ==
               [hr.job_info EXCEPT
                  !.status = status,
                  !.completed_at = IF status = "succeeded" THEN clock ELSE @,
                  !.result_file = IF status = "succeeded" THEN job.dest ELSE @,
                  !.error_message = IF status = "failed"
                                    THEN JobError(hr.job_info.job_name) ELSE @]
           dir == save_job_info(jobs_dir, job_info)
           h1 == [hr EXCEPT !.job_info = job_info,
                            !.polled = Append(@, job.state)]
       IN /\ jobs_dir' = dir
          /\ handler' = [handler EXCEPT ![h] =
                IF hr.caller = "route" THEN RouteAfterCheck(h1, dir, job_info)
                ELSE ServiceAfterCheck(h1, job_info)]
    /\ UNCHANGED <<request_files, results_dir, ext_jobs, clock, b_done>>
    /\ OtherVarsUnchanged

\* an external call of a status or download request raises
ExternalCallRaises(h) ==
    /\ handler[h].pc \in {"batches_get", "files_download"}
    /\ handler' = [handler EXCEPT ![h] =
          RaiseException(@, IF @.route = "status" THEN "Status check failed"
                            ELSE "Download failed")]
    /\ UNCHANGED <<jobs_dir, request_files, results_dir, ext_jobs, clock, b_done>>
    /\ OtherVarsUnchanged

\* BatchService.download_batch_results after files.download returned: the
\* extraction loop, the ZIP saved under BATCH_RESULTS_DIR and returned
FileDownloadReturns(h) ==
    /\ handler[h].pc = "files_download"
    /\ \E content \in ResultFiles :
         LET x == ExtractFrom(content, 1, <<>>)
             h1 == [handler[h] EXCEPT !.content = <<content>>]
         IN IF x.raised = "none"
            THEN /\ results_dir' =
                      [j \in DOMAIN results_dir \cup {h1.job_id} |->
                          IF j = h1.job_id THEN x.images ELSE results_dir[j]]
                 /\ handler' = [handler EXCEPT ![h] =
                       Respond(h1, [status |-> 200, zip |-> x.images])]
            ELSE /\ results_dir' = results_dir
                 /\ handler' = [handler EXCEPT ![h] =
                       IF x.raised \in ValueErrors
                       THEN RaiseValueError(h1, x.raised)
                       ELSE RaiseException(h1, "Download failed")]
    /\ UNCHANGED <<jobs_dir, request_files, ext_jobs, clock, b_done>>
    /\ OtherVarsUnchanged

\* POST /batch/submit-catalog with nf front and nb back images, up to the
\* first await of BatchService.submit_batch_catalog: validation,
\* preprocessing, the job id, the request file, the call of files.upload
SubmitRequest(h, nf, nb) ==
    /\ CanStart(h)
    /\ Cardinality(DOMAIN ext_jobs) < JobsCap
    /\ b_done' = b_done + 1
    /\ LET hr == StartRequest("submit", NoJobId)
           job_id == JobId(clock, nf)
       IN IF UploadsError("batch/submit-catalog", nf, nb) # NoResponse
          THEN /\ handler' = [handler EXCEPT ![h] =
                     Respond(hr, UploadsError("batch/submit-catalog", nf, nb))]
               /\ UNCHANGED request_files
          ELSE \E uploads_ok \in BOOLEAN :
                 IF ~uploads_ok
                 THEN /\ handler' = [handler EXCEPT ![h] =
                            RaiseException(hr, "Batch submission failed")]
                      /\ UNCHANGED request_files
                 ELSE /\ request_files' =
                            [j \in DOMAIN request_files \cup {job_id} |->
                                IF j = job_id THEN create_catalog_requests(nf)
                                ELSE request_files[j]]
                      /\ handler' = [handler EXCEPT ![h] =
                            [hr EXCEPT !.pc = "files_upload", !.job_id = job_id,
                                       !.job_info = BatchJobInfo(job_id, NoJobName, nf, NoTime),
                                       !.calls = Append(@, "files.upload")]]
    /\ UNCHANGED <<jobs_dir, results_dir, ext_jobs, clock>>
    /\ OtherVarsUnchanged

\* files.upload returned: batches.create is called
UploadReturns(h) ==
    /\ handler[h].pc = "files_upload"
    /\ handler' = [handler EXCEPT ![h] =
          [@ EXCEPT !.pc = "batches_create",
                    !.calls = Append(@, "batches.create")]]
    /\ UNCHANGED <<jobs_dir, request_files, results_dir, ext_jobs, clock, b_done>>
    /\ OtherVarsUnchanged

\* the external service creates the job while batches.create is awaited; the
\* call has not returned yet (job_info.job_name stands for batch_job.name, the
\* value the call is about to return)
ExternalCreatesJob(h) ==
    /\ handler[h].pc = "batches_create"
    /\ LET name == JobName(Cardinality(DOMAIN ext_jobs) + 1)
       IN /\ \E s \in {"JOB_STATE_QUEUED", "JOB_STATE_PENDING"} :
                ext_jobs' = [j \in DOMAIN ext_jobs \cup {name} |->
                                IF j = name THEN [state |-> s, dest |-> NoFile]
                                ELSE ext_jobs[j]]
          /\ handler' = [handler EXCEPT ![h] =
                [@ EXCEPT !.pc = "batches_created", !.job_info.job_name = name]]
    /\ UNCHANGED <<jobs_dir, request_files, results_dir, clock, b_done>>
    /\ OtherVarsUnchanged

\* batches.create returned: the job record is saved with status "pending"
\* and the route answers
CreateReturns(h) ==
    /\ handler[h].pc = "batches_created"
    /\ LET hr == handler[h]
           job_info == BatchJobInfo(hr.job_id, hr.job_info.job_name,
                                    hr.job_info.num_products, clock)
       IN /\ jobs_dir' = save_job_info(jobs_dir, job_info)
          /\ handler' = [handler EXCEPT ![h] =
                Respond([hr EXCEPT !.job_info = job_info],
                        [status |-> 200, job_id |-> hr.job_id,
                         job_status |-> "pending",
                         pages |-> hr.job_info.num_products * 2 + 2])]
    /\ UNCHANGED <<request_files, results_dir, ext_jobs, clock, b_done>>
    /\ OtherVarsUnchanged

\* files.upload or batches.create raised; batches.create may raise after the
\* service has created the job (the answer is lost on its way back)
SubmitCallRaises(h) ==
    /\ handler[h].pc \in {"files_upload", "batches_create", "batches_created"}
    /\ handler' = [handler EXCEPT ![h] =
          RaiseException(@, "Batch submission failed")]
    /\ UNCHANGED <<jobs_dir, request_files, results_dir, ext_jobs, clock, b_done>>
    /\ OtherVarsUnchanged

\* the external service moves a job to another state; a job that succeeds
\* gets its result file
ExternalJobAdvances ==
    /\ \E name \in DOMAIN ext_jobs :
         \E s \in ExtNext(ext_jobs[name].state) :
           \E dest \in (IF s = "JOB_STATE_SUCCEEDED"
                        THEN {ResultFile(name), NoFile} ELSE {NoFile}) :
             ext_jobs' = [ext_jobs EXCEPT ![name] = [state |-> s, dest |-> dest]]
    /\ UNCHANGED <<handler, jobs_dir, request_files, results_dir, clock, b_done>>
    /\ OtherVarsUnchanged

\* a second passes
Tick ==
    /\ clock < MaxClock
    /\ clock' = clock + 1
    /\ UNCHANGED <<handler, jobs_dir, request_files, results_dir, ext_jobs, b_done>>
    /\ OtherVarsUnchanged

\* ------------------------------------------------------------------------
\* Specifications
\* ------------------------------------------------------------------------
EmptyCache == <<>>

ReqIdle ==
    /\ route = "none"
    /\ num_front = 0
    /\ num_back = 0
    /\ logo = "none"
    /\ image_quality = "4K"
    /\ num_products = 0
    /\ max_pages = CatalogMaxPages
    /\ page_plan = <<>>

BatchIdle ==
    /\ handler = [h \in Handlers |-> IdleHandler]
    /\ jobs_dir = <<>>
    /\ request_files = <<>>
    /\ results_dir = <<>>
    /\ ext_jobs = <<>>
    /\ clock = 0
    /\ b_done = 0

JobIdle ==
    /\ page_num = 0
    /\ generated_images = <<>>
    /\ attempted = {}
    /\ failed_pages = {}
    /\ failed_stage = "none"
    /\ response = NoResponse

\* ---- Spec: one /generate-catalog request ---------------------------------
Init ==
    /\ route = "generate-catalog"
    /\ num_front \in RequestSizes
    /\ num_back \in RequestSizes
    /\ logo \in {"none", "valid", "invalid"}
    /\ image_quality \in QualityTiers
    /\ num_products = 0
    /\ max_pages = CatalogMaxPages
    /\ page_plan = <<>>
    /\ stage = "pending"
    /\ JobIdle
    /\ GwIdle
    /\ gw_done = 0
    /\ first_image = <<>>
    /\ gw_response = NoParts
    /\ racers = IdleRacers
    /\ key_calls = <<>>
    /\ cache = EmptyCache
    /\ BatchIdle

Next ==
    \/ Validate
    \/ Preprocess
    \/ CoverReturns
    \/ StartPage
    \/ PageReturns
    \/ StartThankyou
    \/ ThankyouReturns
    \/ Upscale
    \/ Package
    \/ (ExternalResponds /\ UNCHANGED <<batchVars, reqVars, jobVars>>)
    \/ (ExternalRaises /\ UNCHANGED <<batchVars, reqVars, jobVars>>)
    \/ (TimeoutFires /\ UNCHANGED <<batchVars, reqVars, jobVars>>)
    \/ (AbandonedCallEnds /\ UNCHANGED <<batchVars, reqVars, jobVars>>)

Spec == Init /\ [][Next]_vars

\* ---- SpecLive: one /generate-catalog request that is carried on ----------
\* The handler is a coroutine of the event loop: a step it can take is
\* taken. A call in flight is given up by wait_for when API_TIMEOUT has
\* passed, unless it has ended before. Nothing is assumed of the external
\* service: it need not answer.
InitLive ==
    /\ route = "generate-catalog"
    /\ num_front \in 1..JobMaxProducts
    /\ num_back = num_front
    /\ logo \in {"none", "invalid"}
    /\ image_quality \in {"4K", "4K_UPSCALE"}
    /\ num_products = 0
    /\ max_pages = CatalogMaxPages
    /\ page_plan = <<>>
    /\ stage = "pending"
    /\ JobIdle
    /\ GwIdle
    /\ gw_done = 0
    /\ first_image = <<>>
    /\ gw_response = NoParts
    /\ racers = IdleRacers
    /\ key_calls = <<>>
    /\ cache = EmptyCache
    /\ BatchIdle

HandlerStep ==
    \/ Validate
    \/ Preprocess
    \/ CoverReturns
    \/ StartPage
    \/ PageReturns
    \/ StartThankyou
    \/ ThankyouReturns
    \/ Upscale
    \/ Package

SpecLive ==
    /\ InitLive
    /\ [][Next]_vars
    /\ WF_vars(HandlerStep)
    /\ WF_vars(TimeoutFires /\ UNCHANGED <<batchVars, reqVars, jobVars>>)

\* ---- SpecPlan: the planner on bounded arguments --------------------------
InitPlan ==
    /\ route = "none"
    /\ num_products \in 0..PlanMaxProducts
    /\ max_pages \in 0..PlanMaxPages
    /\ page_plan = <<>>
    /\ num_front = 0
    /\ num_back = 0
    /\ logo = "none"
    /\ image_quality = "4K"
    /\ stage = "plan"
    /\ JobIdle
    /\ GwIdle
    /\ gw_done = 0
    /\ first_image = <<>>
    /\ gw_response = NoParts
    /\ racers = IdleRacers
    /\ key_calls = <<>>
    /\ cache = EmptyCache
    /\ BatchIdle

PlanPages ==
    /\ stage = "plan"
    /\ page_plan' = plan_catalog_pages(num_products, max_pages)
    /\ stage' = "planned"
    /\ UNCHANGED <<batchVars, route, num_front, num_back, logo, image_quality, num_products, max_pages>>
    /\ UNCHANGED <<page_num, generated_images, attempted, failed_pages,
                   failed_stage, response>>
    /\ UNCHANGED gwVars

NextPlan == PlanPages

SpecPlan == InitPlan /\ [][NextPlan]_vars

\* ---- SpecGateway: generate methods called one after another --------------
\* cache keys of the calls SpecGateway makes
GatewayKeys(op) ==
    IF op \in CachedOps
    THEN {get_cache_key(<<StrArg(op), BytesArg(front_processed(0)), IntArg(p)>>) :
             p \in 1..2}
    ELSE {<<>>}

InitGateway ==
    /\ ReqIdle
    /\ stage = "gateway"
    /\ JobIdle
    /\ GwIdle
    /\ gw_done = 0
    /\ first_image = <<>>
    /\ gw_response = NoParts
    /\ racers = IdleRacers
    /\ key_calls = <<>>
    /\ cache = EmptyCache
    /\ BatchIdle

GwInvoke ==
    /\ gw_pc = "idle"
    /\ gw_done < MaxGatewayCalls
    /\ \E op \in GatewayOps, input_ok \in BOOLEAN :
         \E key \in GatewayKeys(op) : GwEnter(op, key, input_ok)
    /\ UNCHANGED <<batchVars, reqVars, stage, jobVars, gw_done, first_image, gw_response, racers, key_calls>>

GwReturn ==
    /\ gw_pc = "done"
    /\ GwReset
    /\ gw_done' = gw_done + 1
    /\ first_image' =
          IF gw_result.kind = "return" /\ <<gw_op, gw_key>> \notin DOMAIN first_image
          THEN [r \in DOMAIN first_image \cup {<<gw_op, gw_key>>} |->
                   IF r = <<gw_op, gw_key>> THEN gw_result.bytes ELSE first_image[r]]
          ELSE first_image
    /\ UNCHANGED <<batchVars, reqVars, stage, jobVars, gw_response, racers, key_calls>>

NextGateway ==
    \/ GwInvoke
    \/ GwReturn
    \/ (ExternalResponds /\ UNCHANGED <<batchVars, reqVars, jobVars>>)
    \/ (ExternalRaises /\ UNCHANGED <<batchVars, reqVars, jobVars>>)
    \/ (TimeoutFires /\ UNCHANGED <<batchVars, reqVars, jobVars>>)
    \/ (AbandonedCallEnds /\ UNCHANGED <<batchVars, reqVars, jobVars>>)

SpecGateway == InitGateway /\ [][NextGateway]_vars


\* ---- SpecBatch: batch submissions, status polls and downloads ------------
\* product counts of the submissions the model sends
SubmitSizes == {0, 1, BatchMaxProducts + 1}

InitBatch ==
    /\ ReqIdle
    /\ stage = "batch"
    /\ JobIdle
    /\ GwIdle
    /\ gw_done = 0
    /\ first_image = <<>>
    /\ gw_response = NoParts
    /\ racers = IdleRacers
    /\ key_calls = <<>>
    /\ cache = EmptyCache
    /\ BatchIdle

NextBatch ==
    \/ \E h \in Handlers : \E nf, nb \in SubmitSizes : SubmitRequest(h, nf, nb)
    \/ \E h \in Handlers : UploadReturns(h)
    \/ \E h \in Handlers : ExternalCreatesJob(h)
    \/ \E h \in Handlers : CreateReturns(h)
    \/ \E h \in Handlers : SubmitCallRaises(h)
    \/ \E h \in Handlers : StatusRequest(h)
    \/ \E h \in Handlers : DownloadRequest(h)
    \/ \E h \in Handlers : BatchesGetReturns(h)
    \/ \E h \in Handlers : ExternalCallRaises(h)
    \/ \E h \in Handlers : FileDownloadReturns(h)
    \/ ExternalJobAdvances
    \/ Tick

SpecBatch == InitBatch /\ [][NextBatch]_vars

\* ---- SpecAdmission: a request to one of the three generation routes, ----
\* ---- from its arrival to the first step after the upload checks --------
AdmissionRoutes == {"generate", "generate-catalog", "batch/submit-catalog"}

InitAdmission ==
    /\ route \in AdmissionRoutes
    /\ num_front \in 0..MaxUploads
    /\ num_back \in 0..MaxUploads
    /\ logo = "none"
    /\ image_quality = "4K"
    /\ num_products = 0
    /\ max_pages = CatalogMaxPages
    /\ page_plan = <<>>
    /\ stage = "pending"
    /\ JobIdle
    /\ GwIdle
    /\ gw_done = 0
    /\ first_image = <<>>
    /\ gw_response = NoParts
    /\ racers = IdleRacers
    /\ key_calls = <<>>
    /\ cache = EmptyCache
    /\ BatchIdle

\* the request goes to the batch submission route
SubmitArrives ==
    /\ route = "batch/submit-catalog"
    /\ b_done = 0
    /\ SubmitRequest("h1", num_front, num_back)

NextAdmission ==
    \/ Validate
    \/ Preprocess
    \/ GenerateValidate
    \/ GeneratePreprocess
    \/ SubmitArrives

SpecAdmission == InitAdmission /\ [][NextAdmission]_vars

\* ---- SpecExtract: the download of one succeeded job, from the call of ---
\* ---- files.download on, over result files of every shape ---------------
\* the saved record of the job
ExtractedJob ==
    [BatchJobInfo(JobId(0, 1), JobName(1), 1, 0) EXCEPT
        !.status = "succeeded", !.completed_at = 0,
        !.result_file = ResultFile(JobName(1))]

InitExtract ==
    /\ ReqIdle
    /\ stage = "extract"
    /\ JobIdle
    /\ GwIdle
    /\ gw_done = 0
    /\ first_image = <<>>
    /\ gw_response = NoParts
    /\ racers = IdleRacers
    /\ key_calls = <<>>
    /\ cache = EmptyCache
    /\ handler = [h \in Handlers |->
           ServiceAfterCheck(
              [StartRequest("download", ExtractedJob.job_id) EXCEPT
                  !.loaded = <<"succeeded", "succeeded">>],
              ExtractedJob)]
    /\ jobs_dir = save_job_info(<<>>, ExtractedJob)
    /\ request_files = [j \in {ExtractedJob.job_id} |-> create_catalog_requests(1)]
    /\ results_dir = <<>>
    /\ ext_jobs = [n \in {JobName(1)} |->
                     [state |-> "JOB_STATE_SUCCEEDED", dest |-> ResultFile(JobName(1))]]
    /\ clock = 0
    /\ b_done = 1

NextExtract ==
    \/ \E h \in Handlers : FileDownloadReturns(h)
    \/ \E h \in Handlers : ExternalCallRaises(h)

SpecExtract == InitExtract /\ [][NextExtract]_vars

\* ---- SpecSubmit: submissions of one product count, one after another ----
InitSubmit ==
    /\ route = "batch/submit-catalog"
    /\ num_front \in 0..MaxUploads
    /\ num_back = num_front
    /\ logo = "none"
    /\ image_quality = "4K"
    /\ num_products = 0
    /\ max_pages = CatalogMaxPages
    /\ page_plan = <<>>
    /\ stage = "submit"
    /\ JobIdle
    /\ GwIdle
    /\ gw_done = 0
    /\ first_image = <<>>
    /\ gw_response = NoParts
    /\ racers = IdleRacers
    /\ key_calls = <<>>
    /\ cache = EmptyCache
    /\ BatchIdle

NextSubmit ==
    \/ \E h \in Handlers : SubmitRequest(h, num_front, num_back)
    \/ \E h \in Handlers : UploadReturns(h)
    \/ \E h \in Handlers : ExternalCreatesJob(h)
    \/ \E h \in Handlers : CreateReturns(h)
    \/ \E h \in Handlers : SubmitCallRaises(h)
    \/ Tick

SpecSubmit == InitSubmit /\ [][NextSubmit]_vars

\* ---- SpecPolls: concurrent status and download requests for one job -----
\* the record the submission of the job saved
PolledJob == BatchJobInfo(JobId(0, 1), JobName(1), 1, 0)

InitPolls ==
    /\ ReqIdle
    /\ stage = "polls"
    /\ JobIdle
    /\ GwIdle
    /\ gw_done = 0
    /\ first_image = <<>>
    /\ gw_response = NoParts
    /\ racers = IdleRacers
    /\ key_calls = <<>>
    /\ cache = EmptyCache
    /\ handler = [h \in Handlers |-> IdleHandler]
    /\ jobs_dir = save_job_info(<<>>, PolledJob)
    /\ request_files = [j \in {PolledJob.job_id} |-> create_catalog_requests(1)]
    /\ results_dir = <<>>
    /\ \E s \in {"JOB_STATE_QUEUED", "JOB_STATE_PENDING"} :
          ext_jobs = [n \in {JobName(1)} |-> [state |-> s, dest |-> NoFile]]
    /\ clock = 0
    /\ b_done = 0

NextPolls ==
    \/ \E h \in Handlers : StatusRequest(h)
    \/ \E h \in Handlers : DownloadRequest(h)
    \/ \E h \in Handlers : BatchesGetReturns(h)
    \/ \E h \in Handlers : ExternalCallRaises(h)
    \/ \E h \in Handlers : FileDownloadReturns(h)
    \/ ExternalJobAdvances
    \/ Tick

SpecPolls == InitPolls /\ [][NextPolls]_vars

\* ---- SpecRace: two concurrent requests for the same collage -------------
\* Each caller runs generate_collage_layout on its own coroutine; a
\* coroutine runs undisturbed from one await to the next.
RaceOp == "generate_collage_layout"
\* the fingerprint both callers compute
RaceKey ==
    get_cache_key(<<StrArg("collage"), BytesArg(front_processed(0)),
                    BytesArg(back_processed(0)), StrArg(category),
                    StrArg(skin_tone), StrArg(body_type), StrArg(theme),
                    IntArg(1), StrArg("4K")>>)

InitRace ==
    /\ ReqIdle
    /\ stage = "race"
    /\ JobIdle
    /\ GwIdle
    /\ gw_done = 0
    /\ first_image = <<>>
    /\ cache = EmptyCache
    /\ gw_response = NoParts
    /\ racers = IdleRacers
    /\ key_calls = <<>>
    /\ BatchIdle

RaceOthersUnchanged ==
    /\ UNCHANGED <<batchVars, reqVars, jobVars>>
    /\ UNCHANGED <<gw_op, gw_pc, gw_key, gw_input_ok, attempt, gw_calls, gw_errors,
                   gw_result, gw_done, first_image, gw_threads, gw_response, key_calls>>

\* the method from its first line to its first await: the cache lookup, and
\* on a miss the primary call
RaceEnter(r) ==
    /\ racers[r].pc = "idle"
    /\ racers' =
          [racers EXCEPT ![r] =
              IF get_cached_image(RaceKey) # <<>>
              THEN [pc |-> "done", attempt |-> 0,
                    result |-> Returned(get_cached_image(RaceKey)[1])]
              ELSE [pc |-> "in_flight", attempt |-> 0, result |-> NoResult]]
    /\ cache' = cache
    /\ RaceOthersUnchanged

\* "except Exception as e" of caller r
RaceAttemptFailed(r, e) ==
    /\ racers' =
          [racers EXCEPT ![r] =
              IF IsLastAttempt(racers[r].attempt)
              THEN [pc |-> "done", attempt |-> racers[r].attempt,
                    result |-> Raised(e)]
              ELSE [pc |-> "in_flight", attempt |-> racers[r].attempt + 1,
                    result |-> NoResult]]
    /\ cache' = cache

\* the external service answers the call of r: extract, cache, return
RaceResponds(r) ==
    /\ racers[r].pc = "in_flight"
    /\ \E resp \in Responses :
         LET x == extract_image_from_response(resp, RaceOp, RaceKey)
         IN IF x.ok
            THEN /\ cache' = cache_image(RaceKey, x.bytes)
                 /\ racers' = [racers EXCEPT ![r] =
                                  [pc |-> "done", attempt |-> racers[r].attempt,
                                   result |-> Returned(x.bytes)]]
            ELSE RaceAttemptFailed(r, x.error)
    /\ RaceOthersUnchanged

\* the call of r raises or runs into the timeout
RaceCallFails(r) ==
    /\ racers[r].pc = "in_flight"
    /\ \E e \in {"upstream error", "Image generation timed out"} :
         RaceAttemptFailed(r, e)
    /\ RaceOthersUnchanged

\* the caller of r has its result and sends the request again
RaceAgain(r) ==
    /\ racers[r].pc = "done"
    /\ gw_done < MaxGatewayCalls
    /\ gw_done' = gw_done + 1
    /\ racers' = [racers EXCEPT ![r] = IdleRacer]
    /\ UNCHANGED <<batchVars, reqVars, jobVars>>
    /\ UNCHANGED <<gw_op, gw_pc, gw_key, gw_input_ok, attempt, gw_calls, gw_errors,
                   gw_result, first_image, cache, gw_threads, gw_response, key_calls>>

NextRace ==
    \E r \in Racers :
        \/ RaceEnter(r)
        \/ RaceResponds(r)
        \/ RaceCallFails(r)
        \/ RaceAgain(r)

SpecRace == InitRace /\ [][NextRace]_vars

\* ---- SpecKey: the cache keys of two calls of a cached method -----------
\* skin_tone and body_type arguments of the calls: known and unknown names,
\* with and without an underscore, and None
SkinToneArgs == {StrArg("fair"), StrArg("deep"), StrArg("a"), StrArg("a_b"), NoneArg}
BodyTypeArgs == {StrArg(""), StrArg("c"), StrArg("b_c"), NoneArg}
TotalPagesArgs == {CatalogMaxPages, CatalogMaxPages + 2}

\* the arguments of a call of generate_catalog_product_page_v2 that the
\* model varies; the others are the same in both calls
ProductPageCalls ==
    [skin_tone : SkinToneArgs, body_type : BodyTypeArgs, total_pages : TotalPagesArgs]

\* skin_desc = SKIN_TONES.get(skin_tone, SKIN_TONES.get("fair", skin_tone))
skin_desc(arg) == IF arg = StrArg("deep") THEN "deep" ELSE "fair"
\* build = body_type if body_type else config["default_build"]
build(arg) == IF arg \in {NoneArg, StrArg("")} THEN "lean athletic build" ELSE arg[2]

\* what of the varied arguments the prompt sent to the service shows:
\* "PAGE {page_number} OF {total_pages}", "Skin: {skin_desc}", "Build: {build}"
RenderedPrompt(call) ==
    <<call.total_pages, skin_desc(call.skin_tone), build(call.body_type)>>

\* cache_key = self._get_cache_key("product_page_v2", garment_image,
\*     category, view, skin_tone, body_type, theme, page_number, image_quality)
ProductPageKey(call) ==
    get_cache_key(<<StrArg("product_page_v2"), BytesArg(front_processed(0)),
                    StrArg(category), StrArg("front"), call.skin_tone,
                    call.body_type, StrArg(theme), IntArg(1), StrArg("4K")>>)

NoKey == <<>>

InitKey ==
    /\ ReqIdle
    /\ stage = "key"
    /\ JobIdle
    /\ GwIdle
    /\ gw_done = 0
    /\ first_image = <<>>
    /\ cache = EmptyCache
    /\ gw_response = NoParts
    /\ racers = IdleRacers
    /\ key_calls \in {<<[call |-> c1, key |-> NoKey], [call |-> c2, key |-> NoKey]>> :
                         c1 \in ProductPageCalls, c2 \in ProductPageCalls}
    /\ BatchIdle

\* both calls compute their cache key
ComputeKeys ==
    /\ stage = "key"
    /\ key_calls' = [k \in 1..Len(key_calls) |->
                        [key_calls[k] EXCEPT !.key = ProductPageKey(key_calls[k].call)]]
    /\ stage' = "keyed"
    /\ UNCHANGED <<batchVars, reqVars, page_num, generated_images, attempted,
                   failed_pages, failed_stage, response>>
    /\ UNCHANGED <<gw_op, gw_pc, gw_key, gw_input_ok, attempt, gw_calls, gw_errors,
                   gw_result, gw_done, first_image, cache, gw_threads, gw_response,
                   racers>>

NextKey == ComputeKeys

SpecKey == InitKey /\ [][NextKey]_vars

\* ---- SpecParse: _extract_image_from_response on bounded responses ------
SeqsUpTo(S, n) == UNION {[1..k -> S] : k \in 0..n}

\* the responses SpecParse parses: every list of at most MaxParts parts
ResponseShapes == SeqsUpTo(PartShapes, MaxParts)

\* the method whose response SpecParse parses
ParsedOp == "generate_model_image"

InitParse ==
    /\ ReqIdle
    /\ stage = "parse"
    /\ JobIdle
    /\ GwIdle
    /\ gw_done = 0
    /\ first_image = <<>>
    /\ cache = EmptyCache
    /\ gw_response \in ResponseShapes
    /\ racers = IdleRacers
    /\ key_calls = <<>>
    /\ BatchIdle

\* result = self._extract_image_from_response(response)
ParseResponse ==
    /\ stage = "parse"
    /\ LET x == extract_image_from_response(gw_response, ParsedOp, <<>>)
       IN gw_result' = IF x.ok THEN Returned(x.bytes) ELSE Raised(x.error)
    /\ stage' = "parsed"
    /\ UNCHANGED <<batchVars, reqVars, page_num, generated_images, attempted,
                   failed_pages, failed_stage, response>>
    /\ UNCHANGED <<gw_op, gw_pc, gw_key, gw_input_ok, attempt, gw_calls, gw_errors,
                   gw_done, first_image, cache, gw_threads, gw_response, racers, key_calls>>

NextParse == ParseResponse

SpecParse == InitParse /\ [][NextParse]_vars

\* ------------------------------------------------------------------------
\* Properties
\* ------------------------------------------------------------------------
SeqRange(q) == {q[k] : k \in 1..Len(q)}

\* a gateway call in which both attempts failed has ended
BothAttemptsFailed ==
    /\ gw_pc = "done"
    /\ gw_result.kind = "raise"
    /\ Len(gw_calls) = 2

\* C1: one gateway generation call makes at most two external calls; the
\* calls made are a prefix of (primary, fallback), so the primary is first
\* and nothing follows the fallback; the fallback has been called if and
\* only if the primary attempt of this call failed.
C1_PrimaryThenOneFallback ==
    /\ Len(gw_calls) <= 2
    /\ \A k \in 1..Len(gw_calls) :
          gw_calls[k] = <<PRIMARY_MODEL, FALLBACK_MODEL>>[k]
    /\ Cardinality({k \in 1..Len(gw_calls) : gw_calls[k] = FALLBACK_MODEL})
          = (IF \E k \in 1..Len(gw_errors) : gw_errors[k].model = PRIMARY_MODEL
             THEN 1 ELSE 0)

\* a call that ended with the fallback's image after the primary failed
C1_Witness ==
    /\ gw_pc = "done"
    /\ gw_result.kind = "return"
    /\ gw_calls = <<PRIMARY_MODEL, FALLBACK_MODEL>>
    /\ Len(gw_errors) = 1

\* C2: when the primary and the fallback attempt both failed, the error the
\* call raises is the error of the fallback attempt, not the primary's and
\* not a generic "All models failed".
C2_RaisesFallbackError ==
    BothAttemptsFailed =>
        /\ Len(gw_errors) = 2
        /\ gw_errors[2].model = FALLBACK_MODEL
        /\ gw_result.error = gw_errors[2].error
        /\ gw_result.error # "All models failed"

\* both attempts failed, for different reasons
C2_Witness ==
    /\ BothAttemptsFailed
    /\ Len(gw_errors) = 2
    /\ gw_errors[1].error = "Image generation timed out"
    /\ gw_errors[2].error = "No image found in response"
    /\ gw_result.error = "No image found in response"

\* the (filename, bytes) pairs of the output that are content pages
ContentImages(list) ==
    SelectSeq(list, LAMBDA im : im[1] \notin {CoverName, ThankyouName, PdfName})

\* the cache key of every entry the planner can put into a catalog's plan,
\* per quality tier
PlannedEntries ==
    UNION {SeqRange(plan_catalog_pages(n, CatalogMaxPages)) :
              n \in 1..CatalogMaxProducts}
PageKeys == [e \in PlannedEntries, q \in QualityTiers |-> PageKey(e, q)]

\* the image the gateway returns for plan entry p, before and after upscaling
PageImage(p) ==
    GeneratedImage(PageOp(page_plan[p]), PageKeys[page_plan[p], image_quality])
PageImages(p) ==
    {PageImage(p), upscale_to_target(PageImage(p), upscale_target(image_quality))}

\* C3: a content page whose generation raises never aborts the job: the job
\* never fails in the page loop, and a completed job returns the cover, the
\* content pages that did not raise and only those, and the thank-you page.
C3_PageFailuresAreSkipped ==
    /\ failed_stage # "generating_pages"
    /\ (stage = "generating_pages" => response = NoResponse)
    /\ stage = "completed" =>
          /\ failed_pages \subseteq 1..Len(page_plan)
          /\ Len(generated_images) = 2 + Len(page_plan) - Cardinality(failed_pages)
          /\ {im[1] : im \in SeqRange(ContentImages(generated_images))}
                = {PageName(p, page_plan[p]) : p \in (1..Len(page_plan)) \ failed_pages}
          /\ \E k \in 1..Len(generated_images) : generated_images[k][1] = CoverName
          /\ \E k \in 1..Len(generated_images) : generated_images[k][1] = ThankyouName
          /\ response.status = 200

\* an 8-entry plan whose entry 3 raised: 7 content pages, cover, thank-you
C3_Witness ==
    /\ stage = "completed"
    /\ Len(page_plan) = 8
    /\ failed_pages = {3}
    /\ Len(generated_images) = 9

\* C4: the images of a job are in the order cover, content pages in plan
\* order, thank-you: while the job runs the list is a prefix of that order,
\* and the ZIP (and the PDF made from it) of a completed job has the cover
\* first, the generated content pages in increasing plan position, each with
\* its own image, and the thank-you page last, upscaled or not.
InPlanOrder(list) ==
    /\ Len(list) >= 1 => list[1][1] = CoverName
    /\ \A k \in 2..Len(list) :
          list[k][1] # ThankyouName => list[k - 1][1][1] < list[k][1][1]
    /\ \A k \in 1..Len(list) : list[k][1] = ThankyouName => k = Len(list) /\ k > 1
    /\ \A k \in 2..Len(list) :
          list[k][1] # ThankyouName =>
              /\ list[k][1][1] \in 1..Len(page_plan)
              /\ list[k][1] = <<list[k][1][1],
                                PageKind(page_plan[list[k][1][1]]),
                                page_plan[list[k][1][1]].product_index + 1>>
              /\ list[k][2] \in PageImages(list[k][1][1])

C4_OutputInPlanOrder ==
    /\ stage \in {"generating_cover", "generating_pages", "generating_thankyou",
                  "upscaling", "packaging", "completed"}
          => InPlanOrder(generated_images)
    /\ stage = "completed" =>
          LET images == SelectSeq(response.zip, LAMBDA im : im[1] # PdfName)
          IN /\ images = generated_images
             /\ images[Len(images)][1] = ThankyouName
             /\ \A k \in 1..Len(response.zip) :
                   response.zip[k][1] = PdfName =>
                       /\ k = Len(response.zip)
                       /\ response.zip[k][2] = create_pdf_from_images(
                              [j \in 1..Len(images) |-> images[j][2]])

\* a completed, upscaled job with several content pages and a PDF
C4_Witness ==
    /\ stage = "completed"
    /\ should_upscale(image_quality)
    /\ Len(generated_images) >= 5
    /\ failed_pages # {}
    /\ Len(response.zip) = Len(generated_images) + 1
    /\ \E k \in 1..Len(generated_images) : generated_images[k][2][1] = "upscaled"

\* the cover or the thank-you method has raised and the handler resumes
AnchorPageRaised ==
    /\ stage \in {"generating_cover", "generating_thankyou"}
    /\ gw_pc = "done"
    /\ gw_result.kind = "raise"
    /\ gw_pc' = "idle"

\* C5: when the cover or the thank-you generation raises, the job ends in
\* failure with HTTP 500 and no archive, whatever content pages exist by
\* then; a job that failed at the cover never attempted a content page; a
\* failed job stays failed.
C5_AnchorFailureFailsJob ==
    [][ /\ AnchorPageRaised =>
              /\ stage' = "failed"
              /\ response' = FailureResponse(gw_result.error)
              /\ generated_images' = generated_images
        /\ stage' = "failed" =>
              /\ response'.status = 500
              /\ DOMAIN response' = {"status", "detail"}
        /\ (stage' = "failed" /\ failed_stage' = "generating_cover") =>
              /\ attempted' = {}
              /\ page_plan' = <<>>
        /\ stage = "failed" => (stage' = "failed" /\ response' = response)
      ]_vars

\* the thank-you page failed after the cover and all 8 content pages succeeded
C5_Witness ==
    /\ stage = "failed"
    /\ failed_stage = "generating_thankyou"
    /\ Len(page_plan) = 8
    /\ Len(generated_images) = 9
    /\ response.status = 500

\* the errors a job can fail with at each stage
FailureStages == {"preprocessing", "generating_cover", "generating_thankyou"}
StageErrors(s) ==
    IF s = "preprocessing" THEN {"Invalid image file"}
    ELSE AttemptErrors \cup {"Invalid image format"}

\* C6: the failure value of a failed job identifies the stage that failed:
\* no failure at another stage returns the same value.
C6_FailureIdentifiesStage ==
    stage = "failed" =>
        \A s \in FailureStages \ {failed_stage} :
            \A e \in StageErrors(s) : FailureResponse(e) # response

\* C7: for num_products >= 3 the plan has at most max_pages - 2 entries.
C7_PlanWithinBudget ==
    (stage = "planned" /\ num_products >= 3) =>
        Len(page_plan) <= max_pages - 2

\* C8: every entry of a plan has 0 <= product_index < num_products.
C8_ProductIndexInRange ==
    stage = "planned" =>
        \A k \in 1..Len(page_plan) :
            /\ 0 <= page_plan[k].product_index
            /\ page_plan[k].product_index < num_products

\* C9: plan_catalog_pages(5, 10) is 4 collages on products 0,1,2,3, one
\* fabric close-up on product 4, then singles front/back/front starting at
\* product 0, numbered 1..8; and for max_pages = 10 and num_products >= 3
\* every plan has 8 entries: min(num_products, 4) collages, then one fabric
\* close-up, then single views only.
PlanFor5And10 ==
    <<PageEntry("collage", 0, "none", 1), PageEntry("collage", 1, "none", 2),
      PageEntry("collage", 2, "none", 3), PageEntry("collage", 3, "none", 4),
      PageEntry("fabric_v2", 4, "none", 5)>>

C9_PlanShapeForTenPages ==
    (stage = "planned" /\ max_pages = 10 /\ num_products >= 3) =>
        LET nc == IF num_products < 4 THEN num_products ELSE 4
        IN /\ Len(page_plan) = 8
           /\ \A k \in 1..8 :
                 page_plan[k].layout_type =
                    (IF k <= nc THEN "collage"
                     ELSE IF k = nc + 1 THEN "fabric_v2" ELSE "single_v2")
           /\ num_products = 5 =>
                 /\ SubSeq(page_plan, 1, 5) = PlanFor5And10
                 /\ page_plan[6].product_index = 0
                 /\ <<page_plan[6].view, page_plan[7].view, page_plan[8].view>>
                       = <<"front", "back", "front">>
                 /\ \A k \in 1..8 : page_plan[k].page_number = k

C9_Witness ==
    /\ stage = "planned"
    /\ num_products = 5
    /\ max_pages = 10
    /\ Len(page_plan) = 8

\* C10: the k-th entry of every plan carries page_number k.
C10_PageNumbersContiguous ==
    stage = "planned" =>
        \A k \in 1..Len(page_plan) : page_plan[k].page_number = k

\* a plan of the general branch with collages, the fabric page and singles
C10_Witness ==
    /\ stage = "planned"
    /\ num_products >= 3
    /\ Len(page_plan) >= 7
    /\ page_plan[Len(page_plan)].layout_type = "single_v2"
    /\ page_plan[Len(page_plan)].page_number = Len(page_plan)

\* the image list b is the image list a after the upscale step: as long, the
\* same filenames at the same positions, and every entry's bytes either
\* upscaled to the tier's target or left as they were
UpscaledFrom(a, b) ==
    /\ Len(b) = Len(a)
    /\ \A k \in 1..Len(a) :
          /\ b[k][1] = a[k][1]
          /\ b[k][2] \in {a[k][2],
                          upscale_to_target(a[k][2], upscale_target(image_quality))}

\* C17: the upscale step of a job with an upscale tier ends in packaging,
\* never in failure; it keeps the number, the order and the filenames of the
\* generated images, and each image is either upscaled or, when its upscale
\* failed, kept with the bytes it had before, independently of the others.
C17_UpscaleKeepsPages ==
    [][stage = "upscaling" =>
          /\ should_upscale(image_quality)
          /\ stage' = "packaging"
          /\ response' = NoResponse
          /\ UpscaledFrom(generated_images, generated_images')]_vars

\* after the upscale step of a job of at least three images, one image is
\* upscaled and another kept its original bytes
C17_Witness ==
    /\ stage = "packaging"
    /\ should_upscale(image_quality)
    /\ Len(generated_images) >= 3
    /\ \E j, k \in 1..Len(generated_images) :
          /\ generated_images[j][2][1] = "upscaled"
          /\ generated_images[k][2][1] = "png"

\* C18: packaging always completes the job with HTTP 200; the ZIP holds
\* every generated image in list order, followed by the PDF or, when the PDF
\* assembly failed, by nothing.
C18_PdfFailureKeepsImages ==
    [][stage = "packaging" =>
          /\ stage' = "completed"
          /\ response'.status = 200
          /\ \/ response'.zip = generated_images
             \/ /\ Len(response'.zip) = Len(generated_images) + 1
                /\ SubSeq(response'.zip, 1, Len(generated_images)) = generated_images
                /\ response'.zip[Len(response'.zip)][1] = PdfName]_vars

\* a completed job of at least three images whose ZIP has no PDF
C18_Witness ==
    /\ stage = "completed"
    /\ Len(generated_images) >= 3
    /\ response.zip = generated_images
    /\ \A k \in 1..Len(response.zip) : response.zip[k][1] # PdfName

\* the call being executed repeats a request that succeeded before
RepeatsSucceeded == gw_pc # "idle" /\ <<gw_op, gw_key>> \in DOMAIN first_image

C12_NoRequestRegenerated ==
    (RepeatsSucceeded /\ gw_input_ok) => gw_calls = <<>>

\* C20: whenever a generate method waits for the external service, the
\* API_TIMEOUT timer runs, so that the wait can end by timeout.
C20_EveryAttemptTimed ==
    gw_pc = "in_flight" => gw_op \in TimedOps

\* number of calls of an external method a handler has made
CallCount(hr, method) ==
    Cardinality({k \in 1..Len(hr.calls) : hr.calls[k] = method})

\* C13: whenever a poll has mapped the external state name it got, the
\* status it gives the job is 'failed' for JOB_STATE_FAILED, _CANCELLED and
\* _EXPIRED, 'succeeded' for _SUCCEEDED, 'running' for _RUNNING, 'pending'
\* for _PENDING, and one of the four internal statuses for every name,
\* known or not; every saved record holds one of the four.
C13_StatusMapping ==
    /\ \A h \in Handlers :
          handler[h].polled # <<>> =>
             LET name == handler[h].polled[Len(handler[h].polled)]
                 status == handler[h].job_info.status
             IN /\ status \in {"pending", "running", "succeeded", "failed"}
                /\ name \in {"JOB_STATE_FAILED", "JOB_STATE_CANCELLED",
                             "JOB_STATE_EXPIRED"} => status = "failed"
                /\ name = "JOB_STATE_SUCCEEDED" => status = "succeeded"
                /\ name = "JOB_STATE_RUNNING" => status = "running"
                /\ name = "JOB_STATE_PENDING" => status = "pending"
                /\ jobs_dir[handler[h].job_id].status = status
    /\ \A j \in DOMAIN jobs_dir :
          jobs_dir[j].status \in {"pending", "running", "succeeded", "failed"}

\* a status request that polled a cancelled job and answered 'failed'
C13_Witness ==
    \E h \in Handlers :
       /\ handler[h].route = "status"
       /\ handler[h].pc = "done"
       /\ handler[h].polled = <<"JOB_STATE_CANCELLED">>
       /\ handler[h].response.status = 200
       /\ handler[h].response.job.status = "failed"

\* C14 as stated: every check_job_status that found the job's record has
\* queried the external service, whatever status the record held.
C14_EveryCheckQueries ==
    \A h \in Handlers :
       CallCount(handler[h], "batches.get") =
          Cardinality({k \in 1..Len(handler[h].loaded) :
                          handler[h].loaded[k] # "missing"})

\* C14, amended: a check_job_status that found the job's record queries the
\* external service exactly when the saved status is neither 'succeeded'
\* nor 'failed'; a record with a completed status is returned as saved,
\* without any call to the external service.
C14_QueriesUnlessCompleted ==
    \A h \in Handlers :
       CallCount(handler[h], "batches.get") =
          Cardinality({k \in 1..Len(handler[h].loaded) :
                          handler[h].loaded[k] \in {"pending", "running"}})

\* a status request for a job saved as 'failed', answered without a call
C14_Witness ==
    \E h \in Handlers :
       /\ handler[h].route = "status"
       /\ handler[h].pc = "done"
       /\ handler[h].loaded = <<"failed">>
       /\ handler[h].calls = <<>>
       /\ handler[h].response.status = 200

\* the status the route's check_job_status returned for a known job, or
\* "unknown" while it has not returned (or has raised)
CheckedStatus(hr) ==
    IF hr.loaded = <<>> \/ hr.loaded[1] = "missing" THEN "unknown"
    ELSE IF hr.loaded[1] \in {"succeeded", "failed"} THEN hr.loaded[1]
    ELSE IF hr.polled # <<>> THEN state_mapping(hr.polled[1])
    ELSE "unknown"

\* C15: a status or download request for a job id without a saved record
\* ends with HTTP 404 and has made no call to the external service; a
\* download request whose status check returned a status other than
\* 'succeeded' ends with HTTP 400, has not called files.download, has not
\* received a result file and so has written no ZIP; a request that
\* returns a ZIP is a download of a job whose saved status is 'succeeded'.
C15_NotFoundNotReady ==
    \A h \in Handlers :
          LET hr == handler[h]
          IN /\ (hr.route \in {"status", "download"} /\ hr.pc # "idle"
                    /\ hr.job_id \notin DOMAIN jobs_dir) =>
                   /\ hr.pc = "done"
                   /\ hr.response.status = 404
                   /\ hr.calls = <<>>
             /\ (hr.route = "download"
                    /\ CheckedStatus(hr) \notin {"unknown", "succeeded"}) =>
                   /\ hr.pc = "done"
                   /\ hr.response.status = 400
                   /\ CallCount(hr, "files.download") = 0
                   /\ hr.content = <<>>
             /\ (hr.pc = "done" /\ "zip" \in DOMAIN hr.response) =>
                   /\ hr.route = "download"
                   /\ jobs_dir[hr.job_id].status = "succeeded"
                   /\ results_dir[hr.job_id] = hr.response.zip

\* a download request for a job that is running, refused with 400
C15_Witness ==
    \E h \in Handlers :
       /\ handler[h].route = "download"
       /\ handler[h].pc = "done"
       /\ handler[h].polled = <<"JOB_STATE_RUNNING">>
       /\ handler[h].response.status = 400
       /\ handler[h].calls = <<"batches.get">>

\* the images of the records of a result file that carry a decodable image
RECURSIVE DecodableImages(_, _)
DecodableImages(lines, k) ==
    IF k > Len(lines) THEN <<>>
    ELSE (IF lines[k] = "image" THEN <<RecordImage(k)>> ELSE <<>>)
            \o DecodableImages(lines, k + 1)

\* C16: once the result file has been downloaded, the download answers
\* with HTTP 200 and a ZIP holding the image of every record that carries a
\* decodable image, whatever the other lines of the file are.
C16_BadRecordsAreSkipped ==
    \A h \in Handlers :
       handler[h].content # <<>> =>
          /\ handler[h].response.status = 200
          /\ handler[h].response.zip = DecodableImages(handler[h].content[1], 1)

\* the uploads of the request fail the checks of its route
InvalidUploads ==
    \/ num_front # num_back
    \/ num_front < 1
    \/ route = "generate" /\ num_front > 5
    \/ route \in {"generate-catalog", "batch/submit-catalog"} /\ num_front > 10

\* C19: a request whose upload lists differ in length, or whose product
\* count is outside 1..5 (/generate) or 1..10 (/generate-catalog,
\* /batch/submit-catalog), only ever gets the answer HTTP 400: it is never
\* preprocessed, no generate method and no external call is started for it,
\* and no cache entry, request file or job record is written.
C19_InvalidUploadsRejected ==
    InvalidUploads =>
       /\ stage \in {"pending", "rejected"}
       /\ stage = "rejected" => response.status = 400
       /\ \A h \in Handlers :
             /\ handler[h].pc \in {"idle", "done"}
             /\ handler[h].pc = "done" => handler[h].response.status = 400
             /\ handler[h].calls = <<>>
       /\ gw_pc = "idle" /\ gw_calls = <<>>
       /\ generated_images = <<>>
       /\ cache = EmptyCache
       /\ request_files = <<>> /\ jobs_dir = <<>> /\ ext_jobs = <<>>

\* a /generate request with six products on each list, rejected
C19_Witness ==
    /\ route = "generate"
    /\ num_front = 6 /\ num_back = 6
    /\ stage = "rejected"
    /\ response.status = 400

\* the single-view entries of the plan, in plan order
RECURSIVE SinglesOf(_)
SinglesOf(plan) ==
    IF plan = <<>> THEN <<>>
    ELSE (IF Head(plan).layout_type = "single_v2" THEN <<Head(plan)>> ELSE <<>>)
            \o SinglesOf(Tail(plan))

\* C30: for num_products >= 3 the single-view entries of a plan alternate
\* front, back, front, ... starting with front on product 0, and every
\* single back entry is for the same product as the single front entry
\* immediately before it.
C30_BackFollowsItsFront ==
    (stage = "planned" /\ num_products >= 3) =>
        LET singles == SinglesOf(page_plan)
        IN /\ \A k \in 1..Len(singles) :
                 singles[k].view = (IF k % 2 = 1 THEN "front" ELSE "back")
           /\ Len(singles) >= 1 => singles[1].product_index = 0
           /\ \A k \in 2..Len(singles) :
                 singles[k].view = "back" =>
                    singles[k].product_index = singles[k - 1].product_index

\* position of a stage in the order the handler goes through them
StageRank(s) ==
    CASE s = "pending" -> 0
      [] s = "preprocessing" -> 1
      [] s = "generating_cover" -> 2
      [] s = "generating_pages" -> 3
      [] s = "generating_thankyou" -> 4
      [] s = "upscaling" -> 5
      [] s = "packaging" -> 6
      [] s = "completed" -> 7
      [] OTHER -> 8

HasImage(list, name) == \E k \in 1..Len(list) : list[k][1] = name

\* C23: a catalog job moves through its stages only in the order
\* preprocessing, cover, content pages, thank-you, optional upscaling,
\* packaging, completed. No content page is attempted before the cover
\* succeeded; the thank-you page starts only after every planned content page
\* was attempted; upscaling starts only after the thank-you page and only
\* for an upscale tier; 'failed' is left by no step.
C23_StagesInOrder ==
    [][ /\ stage = "failed" => stage' = "failed"
        /\ (stage' # stage /\ stage' \notin {"failed", "rejected"}) =>
              \/ StageRank(stage') = StageRank(stage) + 1
              \/ stage = "generating_thankyou" /\ stage' = "packaging"
        /\ attempted' # attempted =>
              /\ stage = "generating_pages"
              /\ HasImage(generated_images, CoverName)
        /\ (stage' = "generating_thankyou" /\ stage # stage') =>
              attempted = 1..Len(page_plan)
        /\ (stage' = "upscaling" /\ stage # stage') =>
              /\ stage = "generating_thankyou"
              /\ HasImage(generated_images', ThankyouName)
              /\ image_quality \in {"2K_UPSCALE", "4K_UPSCALE"}
        /\ (stage' = "packaging" /\ stage = "generating_thankyou") =>
              image_quality \notin {"2K_UPSCALE", "4K_UPSCALE"}
      ]_vars

\* an upscale-tier job that attempted all its pages, one of them failing,
\* and went through the thank-you page and the upscaling to the end
C23_Witness ==
    /\ stage = "completed"
    /\ image_quality = "2K_UPSCALE"
    /\ Len(page_plan) >= 2
    /\ attempted = 1..Len(page_plan)
    /\ failed_pages # {}
    /\ HasImage(generated_images, ThankyouName)

\* C21: within one call of a generate method the primary and the fallback
\* attempt are strictly sequential: at no time are two external calls of
\* the method running, a timed-out primary call in its worker thread
\* included.
C21_AttemptsSequential == Cardinality(gw_threads) <= 1

\* C22: within one catalog job at most one external generation call is
\* running at any moment, and the page loop goes on to the next page only
\* when every external call issued for the page has ended.
C22_OneCallPerJob ==
    [][ /\ Cardinality(gw_threads') <= 1
        /\ page_num' # page_num => gw_threads = {}
      ]_vars

\* the part holds a payload under one of the three known shapes
HasPayload(part) ==
    part.inline # "none" \/ part.as_image # "none" \/ part.raw # "none"

\* bytes that decode as an image: a rendering of the service, or its PNG
IsImageBytes(b) == Decodes(b) \/ (Len(b) = 2 /\ b[1] = "png")

\* C25: _extract_image_from_response either returns non-empty image bytes
\* or raises; a response without parts, or without a part carrying a
\* payload under a known shape, makes it raise.
C25_ParsingFailsClosed ==
    stage = "parsed" =>
        /\ gw_result.kind \in {"return", "raise"}
        /\ gw_result.kind = "return" =>
              gw_result.bytes # EmptyBytes /\ IsImageBytes(gw_result.bytes)
        /\ (\A k \in 1..Len(gw_response) : ~HasPayload(gw_response[k])) =>
              gw_result.kind = "raise"

\* C26: every byte string returned as an image is the output of the
\* decode-and-re-encode validation of data that decodes, on every
\* extraction path; data that does not decode is never returned.
C26_ReturnedBytesValidated ==
    (stage = "parsed" /\ gw_result.kind = "return") =>
        \E kind \in {"image", "other_image"} :
            /\ validate_image_bytes(Payload(kind, ParsedOp, <<>>)).ok
            /\ gw_result.bytes =
                  validate_image_bytes(Payload(kind, ParsedOp, <<>>)).bytes

\* the step is a generation attempt of the running method succeeding
AttemptSucceeds ==
    gw_pc = "in_flight" /\ gw_pc' = "done" /\ gw_result'.kind = "return"

\* C27: for the cached methods a cache entry is written if and only if a
\* generation attempt for that fingerprint succeeded; it is written before
\* the method returns and holds exactly the bytes the method returns. Every
\* other step, a failing attempt and a failed input validation included,
\* leaves the cache as it was.
C27_CacheWrittenOnSuccessOnly ==
    [][ /\ cache' # cache =>
              /\ gw_op \in CachedOps
              /\ AttemptSucceeds
              /\ cache' = cache_image(gw_key, gw_result'.bytes)
        /\ (gw_op \in CachedOps /\ AttemptSucceeds) =>
              /\ gw_key \in DOMAIN cache'
              /\ cache'[gw_key] = gw_result'.bytes
      ]_vars

\* a cached method that returned the fallback's image after the primary
\* attempt failed, with the image cached under its fingerprint
C27_Witness ==
    /\ gw_op \in CachedOps
    /\ gw_pc = "done"
    /\ Len(gw_calls) = 2
    /\ gw_result.kind = "return"
    /\ gw_key \in DOMAIN cache
    /\ cache[gw_key] = gw_result.bytes

\* C28: when two requests with the same fingerprint race, both missing
\* the cache before either writes, the bytes stored under the fingerprint
\* are the same after both writes: once bytes are cached for a fingerprint
\* no step changes them.
C28_CachedBytesNeverChange ==
    [][ \A k \in DOMAIN cache : k \in DOMAIN cache' /\ cache'[k] = cache[k] ]_vars

\* C29: the cache fingerprint is a function of every input that determines
\* the request: two calls whose rendered prompt differs (in total_pages, in
\* where an underscore falls between two arguments, in which optional
\* argument is None) never get the same fingerprint.
C29_FingerprintSeparatesRequests ==
    stage = "keyed" =>
        (RenderedPrompt(key_calls[1].call) # RenderedPrompt(key_calls[2].call)
            => key_calls[1].key # key_calls[2].key)

\* C24: every catalog job eventually reaches 'completed' or 'failed',
\* whatever the external service does, given that each external call is
\* ended by its result or by the per-call timeout; a page costs at most two
\* external calls.
C24_JobTerminates ==
    /\ [](Len(gw_calls) <= 2)
    /\ (stage = "preprocessing") ~> (stage \in {"completed", "failed"})

\* a job completed although the calls of one of its pages both timed out
C24_Witness ==
    /\ stage = "completed"
    /\ failed_pages # {}
    /\ attempted = 1..Len(page_plan)

\* C31: for num_products in {1, 2} the plan has exactly num_products + 1
\* entries whatever max_pages is: one collage per product in product order,
\* then exactly one fabric close-up, and no single-view entry.
C31_FewProductsPlanShape ==
    (stage = "planned" /\ num_products \in {1, 2}) =>
        /\ Len(page_plan) = num_products + 1
        /\ \A k \in 1..num_products :
              /\ page_plan[k].layout_type = "collage"
              /\ page_plan[k].product_index = k - 1
        /\ page_plan[num_products + 1].layout_type = "fabric_v2"
        /\ \A k \in 1..Len(page_plan) : page_plan[k].layout_type # "single_v2"

\* the plan for two products under a page budget too small for it
C31_Witness ==
    /\ stage = "planned"
    /\ num_products = 2
    /\ max_pages = 0
    /\ Len(page_plan) = 3

\* the kind of the non-empty payload a part offers, taking the strategies in
\* the order inline payload, as-image accessor, raw bytes attribute
FirstPayload(part) ==
    IF part.inline # "none" THEN part.inline
    ELSE IF part.as_image = "pil" THEN "image"
    ELSE IF part.as_image = "unchecked" THEN "corrupt"
    ELSE part.raw

\* the parts of the parsed response that offer a non-empty payload
PayloadParts == {k \in 1..Len(gw_response) : FirstPayload(gw_response[k]) # "none"}

\* C38: extraction examines the parts in order and per part the strategies
\* in the order inline payload, as-image accessor, raw bytes attribute; the
\* first non-empty payload decides: when it does not decode as an image the
\* extraction raises, whatever later strategies and later parts hold, and
\* when it decodes the extraction returns.
C38_FirstPayloadDecides ==
    (stage = "parsed" /\ PayloadParts # {}) =>
        LET k == CHOOSE j \in PayloadParts : \A i \in PayloadParts : j <= i
        IN  /\ FirstPayload(gw_response[k]) = "corrupt" => gw_result.kind = "raise"
            /\ FirstPayload(gw_response[k]) = "image" => gw_result.kind = "return"

\* the filenames of an image list are pairwise distinct
DistinctNames(images) ==
    \A j, k \in 1..Len(images) : images[j][1] = images[k][1] => j = k

\* C37: in a catalog job the number in each content-page filename (the
\* loop index) is the page_number the planner recorded for that entry, which
\* is the page_number handed to the generator; and the filenames of the
\* output (cover, content pages, thank-you, PDF) are pairwise distinct, also
\* when pages were skipped.
C37_FilenamesMatchPlan ==
    /\ \A j \in 1..Len(generated_images) :
          LET name == generated_images[j][1]
          IN name \notin {CoverName, ThankyouName} =>
                /\ name[1] \in 1..Len(page_plan)
                /\ name = PageName(name[1], page_plan[name[1]])
                /\ page_plan[name[1]].page_number = name[1]
    /\ (stage = "generating_pages" /\ gw_pc # "idle") =>
          /\ page_plan[page_num].page_number = page_num
          /\ gw_key = PageKeys[page_plan[page_num], image_quality]
    /\ DistinctNames(generated_images)
    /\ stage = "completed" => DistinctNames(response.zip)

\* a completed job with a skipped page before a page that was generated
C37_Witness ==
    /\ stage = "completed"
    /\ \E p \in failed_pages, j \in 1..Len(generated_images) :
          /\ generated_images[j][1] \notin {CoverName, ThankyouName}
          /\ generated_images[j][1][1] > p
    /\ Len(response.zip) = Len(generated_images) + 1

\* C36: for N products a batch submission builds exactly 2N + 2 requests,
\* the count the submit response announces, with pairwise distinct keys
\* numbered page_01 .. page_(2N+2) without gaps: the cover first, then for
\* each product in order its front and then its back request, the thank-you
\* request last.
C36_RequestsPerSubmission ==
    /\ \A id \in DOMAIN request_files :
          LET requests == request_files[id]
              N == num_front
          IN /\ Len(requests) = 2 * N + 2
             /\ \A j, k \in 1..Len(requests) : requests[j] = requests[k] => j = k
             /\ \A k \in 1..Len(requests) : requests[k][1] = k
             /\ requests[1] = RequestKey(1, "cover", 0)
             /\ \A i \in 1..N :
                   /\ requests[2 * i] = RequestKey(2 * i, "front", i)
                   /\ requests[2 * i + 1] = RequestKey(2 * i + 1, "back", i)
             /\ requests[2 * N + 2] = RequestKey(2 * N + 2, "thankyou", 0)
    /\ \A h \in Handlers :
          (handler[h].pc = "done" /\ handler[h].response.status = 200) =>
              /\ handler[h].job_id \in DOMAIN request_files
              /\ handler[h].response.pages = Len(request_files[handler[h].job_id])

\* a submission of ten products answered with its page count
C36_Witness ==
    /\ stage = "submit"
    /\ num_front = BatchMaxProducts
    /\ \E h \in Handlers :
          /\ handler[h].pc = "done"
          /\ handler[h].response.status = 200
          /\ handler[h].response.pages = 22
          /\ Len(request_files[handler[h].job_id]) = 22

\* C34: the status of a batch job only moves forward along
\* pending -> running -> {succeeded, failed}: whatever the external states,
\* a job whose record says 'running' is never afterwards set to 'pending'.
C34_StatusMovesForward ==
    [][ \A id \in DOMAIN jobs_dir :
           jobs_dir[id].status = "running" =>
               (id \in DOMAIN jobs_dir' /\ jobs_dir'[id].status # "pending") ]_vars

\* C35: distinct submissions get distinct job ids and distinct records: no
\* step of a submission overwrites the request file or the job record that
\* another submission wrote, so the external job a record names stays
\* reachable through that record's job id.
C35_SubmissionsKeepTheirRecords ==
    [][ /\ \A id \in DOMAIN request_files :
              /\ id \in DOMAIN request_files'
              /\ request_files'[id] = request_files[id]
        /\ \A id \in DOMAIN jobs_dir :
              /\ id \in DOMAIN jobs_dir'
              /\ jobs_dir'[id].job_name = jobs_dir[id].job_name ]_vars

\* C32: whenever the external batch job of a submission exists, a job
\* record holding its external name is on disk, a failure right after the
\* external create call included (the states in which the submission is
\* still inside batches.create, about to save the record, are left out).
C32_CreatedJobsHaveRecords ==
    \A name \in DOMAIN ext_jobs :
        \/ \E id \in DOMAIN jobs_dir : jobs_dir[id].job_name = name
        \/ \E h \in Handlers :
              /\ handler[h].pc = "batches_created"
              /\ handler[h].job_info.job_name = name

\* C33: once the saved status of a batch job is 'succeeded' or 'failed', no
\* step changes it or rewrites completed_at, result_file or error_message,
\* under every interleaving of concurrent status and download requests.
C33_TerminalRecordIsFinal ==
    [][ \A id \in DOMAIN jobs_dir :
           jobs_dir[id].status \in {"succeeded", "failed"} =>
               /\ id \in DOMAIN jobs_dir'
               /\ jobs_dir'[id].status = jobs_dir[id].status
               /\ jobs_dir'[id].completed_at = jobs_dir[id].completed_at
               /\ jobs_dir'[id].result_file = jobs_dir[id].result_file
               /\ jobs_dir'[id].error_message = jobs_dir[id].error_message ]_vars

====
